---- MODULE Spec2Model ----
(***************************************************************************)
(* Model of bredtape/pgd: metadata discovery over a PostgreSQL catalog     *)
(* (Discover, discoverWithRelations, discoverSingle,                       *)
(* parseAndMergeColumnBehavior, TablesMetadata.Validate, FlattenColumns)   *)
(* query validation (Query.Validate, WhereExpression.Validate), planning   *)
(* (convertQuery, toSQL, processJoins) and the round trip of API.Query,    *)
(* the construction of the API (NewAPI, Config.Validate), the predicate    *)
(* compilers of the default registry with the rendering of their           *)
(* expressions and statements, and API.Query statement by statement for    *)
(* several goroutines that share one catalog.                              *)
(*                                                                         *)
(* Strings that the code splits on "." are modelled as sequences of        *)
(* tokens: a token is an identifier or the separator ".".  Identifiers     *)
(* that pass the name regexp never contain a dot, so splitting, joining    *)
(* and LastIndex on these sequences behave as on the Go strings.           *)
(***************************************************************************)
EXTENDS Integers, Sequences, FiniteSets, TLC

VARIABLES
    cfg,        \* api.c : the Config the API was built with
    db,         \* the PostgreSQL catalog the connection answers from
    status,     \* position of the Discover call
    baseTable,  \* argument of Discover
    known,      \* TablesMetadata filled by discoverSingle
    stack,      \* call stack of discoverWithRelations
    txOpen,     \* read-only transactions begun and not yet committed
    batches,    \* number of catalog batches sent, per table
    txBegun,    \* number of transactions begun, per table
    result,     \* DiscoverResult returned by Discover
    discoverErr,\* error returned by Discover (its innermost cause)
    plan,       \* outcome of the last convertQuery call
    call,       \* what the last API.Query call returned and did on the connection
    api,        \* what NewAPI was given and what it returned
    compiled,   \* a predicate compiler of the registry applied to a column and a value
    calls       \* the API.Query calls in progress, one goroutine each

vars == <<cfg, db, status, baseTable, known, stack, txOpen, batches, txBegun, result,
          discoverErr, plan, call, api, compiled, calls>>

None == "<nil>"
Dot == "."

\* recursion depth at which the Go runtime gives up (stack exhaustion)
MaxDepth == 6
\* longest select list of a generated query
MaxSelect == 2
\* nesting depth of the generated where expressions
MaxWhereDepth == 2

----------------------------------------------------------------------------
(* Identifiers                                                             *)

Tables == {"tableA", "tableB", "tableC", "tableE"}

\* names accepted by ^[a-z][a-zA-Z0-9_]{1,63}$ among the names of the model
ValidIdentifiers ==
    {"tableA", "tableB", "tableC", "tableE", "tableX",
     "id", "name", "description", "other_b", "other_b2", "other_c",
     "parent", "back", "missing", "ref"}

TableIsValid(t) == t \in ValidIdentifiers

ColumnIsValid(c) == c \in ValidIdentifiers

----------------------------------------------------------------------------
(* Sequences helpers                                                       *)

Range(s) == {s[i] : i \in DOMAIN s}

RECURSIVE SetToSeqs(_)
SetToSeqs(S) ==
    IF S = {} THEN {<<>>}
    ELSE UNION {{<<x>> \o r : r \in SetToSeqs(S \ {x})} : x \in S}

----------------------------------------------------------------------------
(* Dotted strings: strings.Split / strings.Join / strings.LastIndex        *)

\* strings.Split(s, "."): the identifiers between the dots ("" for an empty one)
RECURSIVE SplitDots(_, _, _)
SplitDots(s, cur, acc) ==
    IF s = <<>> THEN Append(acc, cur)
    ELSE IF Head(s) = Dot THEN SplitDots(Tail(s), "", Append(acc, cur))
    ELSE SplitDots(Tail(s), Head(s), acc)

Split(s) == SplitDots(s, "", <<>>)

\* strings.Join(xs, ".")
RECURSIVE JoinDots(_)
JoinDots(xs) ==
    IF xs = <<>> THEN <<>>
    ELSE IF Len(xs) = 1 THEN (IF xs[1] = "" THEN <<>> ELSE <<xs[1]>>)
    ELSE (IF xs[1] = "" THEN <<>> ELSE <<xs[1]>>) \o <<Dot>> \o JoinDots(Tail(xs))

\* strings.LastIndex(s, "."), 1-based; 0 when there is no dot
LastIndexDot(s) ==
    IF \E i \in DOMAIN s : s[i] = Dot
    THEN CHOOSE i \in DOMAIN s : s[i] = Dot /\ \A j \in DOMAIN s : s[j] = Dot => j <= i
    ELSE 0

\* ColumnSelector.GetColumns
GetColumns(cs) == Split(cs)

\* NewColumnSelector
NewColumnSelector(cols) == JoinDots(cols)

\* ColumnSelector.IsValid
ColumnSelectorIsValid(cs) ==
    LET xs == GetColumns(cs)
    IN  Len(xs) # 0 /\ \A i \in DOMAIN xs : ColumnIsValid(xs[i])

\* ColumnSelectorFull.Breakdown: [tables, columns], the same index for a pair
Breakdown(c) ==
    LET xs == Split(c)
        n  == Len(xs) \div 2
    IN  [tables  |-> [i \in 1..n |-> xs[2 * i - 1]],
         columns |-> [i \in 1..n |-> xs[2 * i]]]

\* ColumnSelectorRebuild
ColumnSelectorRebuild(tables, columns) ==
    JoinDots([i \in 1..(2 * Len(tables)) |->
                 IF i % 2 = 1 THEN tables[(i + 1) \div 2] ELSE columns[i \div 2]])

\* ColumnSelectorFull.SplitAtLastColumn: [prefix, column]
SplitAtLastColumn(cs) ==
    LET idx == LastIndexDot(cs)
    IN  [prefix |-> SubSeq(cs, 1, idx - 1), column |-> SubSeq(cs, idx + 1, Len(cs))]

\* ColumnSelectorFull.GetLastTable
GetLastTable(cs) ==
    LET ts == Breakdown(cs).tables IN ts[Len(ts)]

\* ColumnSelectorFull.ReplaceLastColumn
ReplaceLastColumn(cs, c) ==
    SubSeq(cs, 1, LastIndexDot(cs) - 1) \o <<Dot>> \o <<c>>

Quote == "\""

\* ColumnSelectorFull.StringQuoted: "prefix"."column"
StringQuoted(cs) ==
    LET p == SplitAtLastColumn(cs)
    IN  <<Quote>> \o p.prefix \o <<Quote, Dot, Quote>> \o p.column \o <<Quote>>

\* Table.StringQuoted
TableStringQuoted(t) == <<Quote, t, Quote>>

----------------------------------------------------------------------------
(* Filter operator names and the registry                                  *)

\* the operator names of the model in the byte order Go compares strings by
FilterOperatorOrder ==
    <<"after", "before", "contains", "containsElement", "endsWith", "equals",
      "greater", "greaterOrEquals", "hasAnyElement", "hasNoElements",
      "isNotSpecified", "isSpecified", "less", "lessOrEquals", "notContains",
      "notContainsElement", "notEquals", "startsWith">>

\* position of an operator name in the order of Go's string comparison
Rank(op) == CHOOSE i \in DOMAIN FilterOperatorOrder : FilterOperatorOrder[i] = op

StringLess(a, b) == Rank(a) < Rank(b)

EqualsFilterOperations == {"equals", "notEquals"}

CompareFilterOperations == {"greater", "greaterOrEquals", "less", "lessOrEquals"}

NumberZeroFilterOperations == {"isSpecified", "isNotSpecified"}

TextFilterOperations ==
    {"contains", "endsWith", "notContains", "isNotSpecified", "isSpecified", "startsWith"}

numberOps ==
    EqualsFilterOperations \cup CompareFilterOperations \cup NumberZeroFilterOperations

\* DefaultFilterOperations: data type -> registered operator names
TimestampFilterOperations == {"after", "before", "isNotSpecified", "isSpecified"}

ArrayFilterOperations ==
    {"containsElement", "hasAnyElement", "hasNoElements", "notContainsElement"}

\* DefaultFilterOperations: data type -> registered operator names
DefaultFilterOperations ==
    [dt \in {"bigint", "double precision", "integer", "real", "text", "text[]",
             "timestamp without time zone", "uuid"} |->
        CASE dt = "text" -> EqualsFilterOperations \cup TextFilterOperations
          [] dt = "text[]" -> ArrayFilterOperations
          [] dt = "timestamp without time zone" -> TimestampFilterOperations
          [] dt = "uuid" -> EqualsFilterOperations
          [] OTHER -> numberOps]

\* a lookup that finds the operator under any data type
Registered_anyType(filterOps, dt, op) == \E d \in DOMAIN filterOps : op \in filterOps[d]

\* filterOps[dt][op] exists
Registered(filterOps, dt, op) == dt \in DOMAIN filterOps /\ op \in filterOps[dt]

----------------------------------------------------------------------------
(* Config                                                                  *)

defaultSchema == "public"
defaultLimit == 200
maxLimit == 1000

\* Config.Validate: the errors it can return, {} when it returns nil; the
\* columnDefaults are ranged over in any order, so each failing entry can be
\* the one that is reported
ConfigValidateErrors(c) ==
    IF c.Schema = "" THEN {"schema cannot be empty"}
    ELSE IF c.DefaultLimit = 0 THEN {"defaultLimit not set"}
    ELSE IF c.DefaultLimit > maxLimit THEN {"defaultLimit above maxLimit"}
    ELSE IF DOMAIN c.FilterOperations = {} THEN {"filterOperations empty"}
    ELSE UNION {
        LET behavior == c.ColumnDefaults[dt]
        IN  IF \E i \in DOMAIN behavior.filterOperations :
                  ~Registered(c.FilterOperations, dt, behavior.filterOperations[i])
            THEN IF dt \notin DOMAIN c.FilterOperations
                 THEN {"filterOperation for data type is not present"}
                 ELSE {"filterOperation for combination is not registered"}
            ELSE IF /\ behavior.allowFiltering
                    /\ Len(behavior.filterOperations) = 0
                    /\ (dt \notin DOMAIN c.FilterOperations \/ c.FilterOperations[dt] = {})
            THEN {"allowFiltering is set, but filterOperations are both empty"}
            ELSE {} : dt \in DOMAIN c.ColumnDefaults}

\* Config.Validate: TRUE when it returns nil
ConfigValidate(c) == ConfigValidateErrors(c) = {}

\* NewAPI without the replacement of the unset schema and defaultLimit
ApplyDefaults_none(c) == c

\* NewAPI: if c.Schema == "" { c.Schema = defaultSchema }
\*         if c.DefaultLimit == 0 { c.DefaultLimit = defaultLimit }
ApplyDefaults(c) ==
    [c EXCEPT !.Schema = IF @ = "" THEN defaultSchema ELSE @,
              !.DefaultLimit = IF @ = 0 THEN defaultLimit ELSE @]

\* the zero value of Config
ZeroConfig ==
    [Schema |-> "", DefaultLimit |-> 0, FilterOperations |-> [dt \in {} |-> {}],
     ColumnDefaults |-> [dt \in {} |-> {}]]

\* NewAPI: the returns it can make for the Config c: (nil, error), or a
\* handle holding the Config with the defaults filled in
NewAPI(c) ==
    LET c1 == ApplyDefaults(c)
        ves == ConfigValidateErrors(c1)
    IN  IF ves # {}
        THEN {[built |-> TRUE, input |-> c, handle |-> FALSE, c |-> ZeroConfig,
               err |-> "invalid config", cause |-> ve] : ve \in ves}
        ELSE {[built |-> TRUE, input |-> c, handle |-> TRUE, c |-> c1,
               err |-> None, cause |-> None]}

ColumnBehavior(props, sorting, filtering, omit, ops) ==
    [properties |-> props, allowSorting |-> sorting, allowFiltering |-> filtering,
     omitDefaultFilterOperations |-> omit, filterOperations |-> ops]

NoColumnDefaultsError == "no column defaults for data type"

\* the zero value of ColumnBehavior
ZeroBehavior == ColumnBehavior(None, FALSE, FALSE, FALSE, <<>>)

----------------------------------------------------------------------------
(* Behavior merging                                                        *)

\* slices.Sort on operator names (insertion into a sorted sequence)
RECURSIVE InsertSorted(_, _)
InsertSorted(x, s) ==
    IF s = <<>> THEN <<x>>
    ELSE IF StringLess(Head(s), x) THEN <<Head(s)>> \o InsertSorted(x, Tail(s))
    ELSE <<x>> \o s

RECURSIVE SortStrings(_)
SortStrings(s) == IF s = <<>> THEN <<>> ELSE InsertSorted(Head(s), SortStrings(Tail(s)))

\* the loop of uniqueSliceString: first occurrences, in order
RECURSIVE FirstOccurrences(_, _)
FirstOccurrences(xs, seen) ==
    IF xs = <<>> THEN <<>>
    ELSE IF Head(xs) \in seen THEN FirstOccurrences(Tail(xs), seen)
    ELSE <<Head(xs)>> \o FirstOccurrences(Tail(xs), seen \cup {Head(xs)})

uniqueSliceString(xs) == SortStrings(FirstOccurrences(xs, {}))

\* json.Unmarshal of a comment into ColumnBehavior: absent keys keep the zero value
UnmarshalBehavior(obj) ==
    ColumnBehavior(
        IF "properties" \in obj.keys THEN obj.val.properties ELSE None,
        IF "allowSorting" \in obj.keys THEN obj.val.allowSorting ELSE FALSE,
        IF "allowFiltering" \in obj.keys THEN obj.val.allowFiltering ELSE FALSE,
        IF "omitDefaultFilterOperations" \in obj.keys
            THEN obj.val.omitDefaultFilterOperations ELSE FALSE,
        IF "filterOperations" \in obj.keys THEN obj.val.filterOperations ELSE <<>>)

\* a merge that looks at the decoded value instead of the presence of the key
MergeAllowSorting_byValue(obj, b, d) ==
    IF ~b.allowSorting THEN d.allowSorting ELSE b.allowSorting

\* the four "if _, exists := m[key]; !exists" statements
MergeAllowSorting(obj, b, d) ==
    IF "allowSorting" \notin obj.keys THEN d.allowSorting ELSE b.allowSorting

MergeAllowFiltering(obj, b, d) ==
    IF "allowFiltering" \notin obj.keys THEN d.allowFiltering ELSE b.allowFiltering

MergeOmitDefault(obj, b, d) ==
    IF "omitDefaultFilterOperations" \notin obj.keys
    THEN d.omitDefaultFilterOperations ELSE b.omitDefaultFilterOperations

MergeFilterOperations(obj, b, d) ==
    IF "filterOperations" \notin obj.keys THEN d.filterOperations ELSE b.filterOperations

\* the part of parseAndMergeColumnBehavior after both json.Unmarshal calls
MergeBehavior(obj, d) ==
    LET b      == UnmarshalBehavior(obj)
        omit   == MergeOmitDefault(obj, b, d)
        filt   == MergeAllowFiltering(obj, b, d)
        own    == MergeFilterOperations(obj, b, d)
        concat == IF ~omit THEN own \o d.filterOperations ELSE own
        uniq   == uniqueSliceString(concat)
    IN  ColumnBehavior(b.properties, MergeAllowSorting(obj, b, d), filt, omit,
                       IF ~filt THEN <<>> ELSE uniq)

\* the early return for a nil or empty comment
NoCommentBehavior(d) == d

\* a lookup of the default that takes the zero value for a missing data type
parseAndMerge_zeroDefault(c, dataType, raw) ==
    IF dataType \notin DOMAIN c.ColumnDefaults THEN [err |-> None, b |-> ZeroBehavior]
    ELSE IF raw.kind \in {"nil", "empty"}
        THEN [err |-> None, b |-> NoCommentBehavior(c.ColumnDefaults[dataType])]
    ELSE IF raw.kind = "malformed"
        THEN [err |-> "failed to unmarshal column behavior", b |-> ZeroBehavior]
    ELSE [err |-> None, b |-> MergeBehavior(raw.obj, c.ColumnDefaults[dataType])]

\* parseAndMergeColumnBehavior: [err, b]
parseAndMergeColumnBehavior(c, dataType, raw) ==
    IF dataType \notin DOMAIN c.ColumnDefaults
        THEN [err |-> NoColumnDefaultsError, b |-> ZeroBehavior]
    ELSE LET d == c.ColumnDefaults[dataType]
         IN  IF raw.kind \in {"nil", "empty"} THEN [err |-> None, b |-> NoCommentBehavior(d)]
             ELSE IF raw.kind = "malformed"
                 THEN [err |-> "failed to unmarshal column behavior", b |-> ZeroBehavior]
             ELSE [err |-> None, b |-> MergeBehavior(raw.obj, d)]

----------------------------------------------------------------------------
(* Metadata model                                                          *)

\* a nil *ColumnRelation
NoRelation == [table |-> None, column |-> None]

ColumnMetadata(name, dataType, isNullable, relation, behavior) ==
    [name |-> name, dataType |-> dataType, isNullable |-> isNullable,
     relation |-> relation, behavior |-> behavior]

\* ColumnMetadata.Validate
ColumnValidate(c) == c.name # "" /\ ColumnIsValid(c.name) /\ c.dataType # ""

\* TableMetadata.Validate
TableValidate(t) ==
    /\ t.name # ""
    /\ TableIsValid(t.name)
    /\ DOMAIN t.columns # {}
    /\ \A ck \in DOMAIN t.columns :
          ColumnValidate(t.columns[ck]) /\ ck = t.columns[ck].name

\* a Validate that does not compare the data types of a relation
RelationTypeOk_any(c, foreignColumn) == TRUE

\* the data type comparison of TablesMetadata.Validate
RelationTypeOk(c, foreignColumn) == c.dataType = foreignColumn.dataType

\* TablesMetadata.Validate: TRUE when it returns nil
TablesValidate(ts) ==
    \A tk \in DOMAIN ts :
        LET t == ts[tk]
        IN  /\ TableValidate(t)
            /\ tk = t.name
            /\ \A ck \in DOMAIN t.columns :
                  LET c == t.columns[ck]
                  IN  c.relation # NoRelation =>
                        /\ c.relation.table \in DOMAIN ts
                        /\ c.relation.column \in DOMAIN ts[c.relation.table].columns
                        /\ RelationTypeOk(c, ts[c.relation.table].columns[c.relation.column])

\* TablesMetadata.flattenColumns with `fuel` stack frames left.  The result is the
\* set of <<selector, metadata>> entries written to the map; the outcomes are
\* what the call can end with, the columns of a table being ranged over in any
\* order: "ok", "err" (table not found) or "overflow" (the stack is exhausted).
RECURSIVE flattenColumns(_, _, _, _)
flattenColumns(ts, parents, table, fuel) ==
    IF fuel = 0 THEN [outcomes |-> {"overflow"}, entries |-> {}]
    ELSE IF table \notin DOMAIN ts THEN [outcomes |-> {"err"}, entries |-> {}]
    ELSE
        LET tableMeta == ts[table]
            sub(column) ==
                flattenColumns(ts, Append(parents, column),
                               tableMeta.columns[column].relation.table, fuel - 1)
            related == {column \in DOMAIN tableMeta.columns :
                           tableMeta.columns[column].relation # NoRelation}
            bad == UNION {sub(column).outcomes \ {"ok"} : column \in related}
        IN  [outcomes |-> IF bad = {} THEN {"ok"} ELSE bad,
             entries  |->
                {<<NewColumnSelector(Append(parents, column)), tableMeta.columns[column]>> :
                    column \in DOMAIN tableMeta.columns}
                \cup UNION {sub(column).entries : column \in related}]

\* the map built from the entries
EntriesToMap(entries) ==
    [k \in {e[1] : e \in entries} |-> (CHOOSE e \in entries : e[1] = k)[2]]

\* a flattening that does not descend through the relations
FlattenColumns_baseOnly(ts, base) ==
    IF base \notin DOMAIN ts THEN [outcomes |-> {"err"}, entries |-> {}]
    ELSE [outcomes |-> {"ok"},
          entries  |-> {<<NewColumnSelector(<<column>>), ts[base].columns[column]>> :
                           column \in DOMAIN ts[base].columns}]

\* TablesMetadata.FlattenColumns
FlattenColumns(ts, base) == flattenColumns(ts, <<>>, base, MaxDepth)

\* TablesMetadata.ConvertColumnSelector: [err, full]
RECURSIVE convertWalk(_, _, _, _, _)
convertWalk(ts, columns, i, table, tables) ==
    IF table \notin DOMAIN ts THEN [err |-> "table not found", full |-> <<>>]
    ELSE IF columns[i] \notin DOMAIN ts[table].columns
        THEN [err |-> "table does not have column", full |-> <<>>]
    ELSE IF i < Len(columns)
        THEN IF ts[table].columns[columns[i]].relation = NoRelation
             THEN [err |-> "should have some relation", full |-> <<>>]
             ELSE LET next == ts[table].columns[columns[i]].relation.table
                  IN  convertWalk(ts, columns, i + 1, next, Append(tables, next))
    ELSE [err |-> None, full |-> ColumnSelectorRebuild(tables, columns)]

\* a conversion that resolves the columns of the base table only
ConvertColumnSelector_baseOnly(ts, base, cs) ==
    LET columns == GetColumns(cs)
    IN  IF Len(columns) = 1 /\ base \in DOMAIN ts /\ columns[1] \in DOMAIN ts[base].columns
        THEN [err |-> None, full |-> ColumnSelectorRebuild(<<base>>, columns)]
        ELSE [err |-> "table does not have column", full |-> <<>>]

ConvertColumnSelector(ts, base, cs) ==
    LET columns == GetColumns(cs)
    IN  IF Len(columns) = 0 THEN [err |-> "invalid columns", full |-> <<>>]
        ELSE convertWalk(ts, columns, 1, base, <<base>>)

----------------------------------------------------------------------------
(* The catalog the connection answers from: per table the rows of the      *)
(* three catalog queries of discoverSingle                                 *)

NilComment == [kind |-> "nil"]

ColumnRow(name, dataType, isNullable, comment) ==
    [name |-> name, dataType |-> dataType, isNullable |-> isNullable, comment |-> comment]

FkRow(column, ftable, fcolumn) == [column |-> column, ftable |-> ftable, fcolumn |-> fcolumn]

DBVariants ==
    {"plain", "diamond", "selfref", "cycle", "typeMismatch", "shortName", "strayFk",
     "noDefault", "noDefaultComment", "noDefaultLate"}

\* a column comment that allows filtering with one operator
FilterComment ==
    [kind |-> "object",
     obj  |-> [keys |-> {"allowFiltering", "filterOperations"},
               val  |-> [properties |-> None, allowSorting |-> FALSE,
                         allowFiltering |-> TRUE, omitDefaultFilterOperations |-> FALSE,
                         filterOperations |-> <<"equals">>]]]

\* The schema of TestDiscoverAndQueryData (tableA -> tableB -> tableC), with
\* the nullability of the three relation columns and the comment of
\* tableA.name as parameters, an empty table tableE, and one variation:
\*   diamond       tableA.other_c references tableC.name
\*   selfref       tableC.parent references tableC.name
\*   cycle         tableC.back references tableA.id
\*   typeMismatch  tableA.other_b is a bigint referencing the integer tableB.id
\*   shortName     tableC has a one-letter column, which the name regexp rejects
\*   strayFk       the foreign-key listing of tableB holds a row of another table
\*   noDefault         tableC has a uuid column, a type without column default
\*   noDefaultComment  the same, and the uuid column carries a comment
\*   noDefaultLate     the same, after a column whose comment is not JSON
MakeDB(variant, nb, nb2, nc, nameComment) ==
    [t \in Tables |->
        CASE t = "tableA" ->
               [comment |-> NilComment,
                columns |-> <<ColumnRow("id", "integer", FALSE, NilComment),
                              ColumnRow("name", "text", FALSE, nameComment),
                              ColumnRow("other_b",
                                        IF variant = "typeMismatch" THEN "bigint" ELSE "integer",
                                        nb, NilComment),
                              ColumnRow("other_b2", "integer", nb2, NilComment)>>
                            \o (IF variant = "diamond"
                                THEN <<ColumnRow("other_c", "text", TRUE, NilComment)>>
                                ELSE <<>>),
                fks |-> {FkRow("other_b", "tableB", "id"), FkRow("other_b2", "tableB", "id")}
                        \cup (IF variant = "diamond"
                              THEN {FkRow("other_c", "tableC", "name")} ELSE {})]
          [] t = "tableB" ->
               [comment |-> NilComment,
                columns |-> <<ColumnRow("id", "integer", FALSE, NilComment),
                              ColumnRow("name", "text", FALSE, NilComment),
                              ColumnRow("other_c", "text", nc, NilComment)>>,
                fks |-> {FkRow("other_c", "tableC", "name")}
                        \cup (IF variant = "strayFk"
                              THEN {FkRow("missing", "tableC", "name")} ELSE {})]
          [] t = "tableC" ->
               [comment |-> [kind |-> "object"],
                columns |-> <<ColumnRow("name", "text", FALSE, NilComment),
                              ColumnRow("description", "text", TRUE,
                                        IF variant = "noDefaultLate"
                                        THEN [kind |-> "malformed"] ELSE NilComment)>>
                            \o (CASE variant = "selfref" ->
                                       <<ColumnRow("parent", "text", TRUE, NilComment)>>
                                  [] variant = "cycle" ->
                                       <<ColumnRow("back", "integer", TRUE, NilComment)>>
                                  [] variant = "shortName" ->
                                       <<ColumnRow("x", "text", TRUE, NilComment)>>
                                  [] variant \in {"noDefault", "noDefaultLate"} ->
                                       <<ColumnRow("ref", "uuid", TRUE, NilComment)>>
                                  [] variant = "noDefaultComment" ->
                                       <<ColumnRow("ref", "uuid", TRUE, FilterComment)>>
                                  [] OTHER -> <<>>),
                fks |-> CASE variant = "selfref" -> {FkRow("parent", "tableC", "name")}
                          [] variant = "cycle" -> {FkRow("back", "tableA", "id")}
                          [] OTHER -> {}]
          [] OTHER ->
               [comment |-> NilComment, columns |-> <<>>, fks |-> {}]]

\* tables reachable from t by following foreign keys zero or more times
RECURSIVE ReachableFrom(_, _)
ReachableFrom(d, S) ==
    LET next == S \cup {r.ftable : r \in UNION {d[t].fks : t \in S \cap DOMAIN d}}
    IN  IF next = S THEN S ELSE ReachableFrom(d, next)

----------------------------------------------------------------------------
(* discoverSingle                                                          *)

\* the column loop of discoverSingle: [err, columns]
RECURSIVE scanColumns(_, _, _)
scanColumns(c, rows, acc) ==
    IF rows = <<>> THEN [err |-> None, columns |-> acc]
    ELSE LET row == Head(rows)
             pm  == parseAndMergeColumnBehavior(c, row.dataType, row.comment)
         IN  IF pm.err # None THEN [err |-> pm.err, columns |-> acc]
             ELSE scanColumns(c, Tail(rows),
                     [k \in DOMAIN acc \cup {row.name} |->
                         IF k = row.name
                         THEN ColumnMetadata(row.name, row.dataType, row.isNullable,
                                             NoRelation, pm.b)
                         ELSE acc[k]])

EmptyMap == [k \in {} |-> None]

\* a foreign-key listing that is not restricted to the table at hand
OtherTables_unfiltered(fks) == {r.ftable : r \in fks} \cup {"tableA"}

\* otherTables: the foreign tables of the foreign-key rows
OtherTables(fks) == {r.ftable : r \in fks}

\* the foreign-key loop: the columns with their relations attached
AttachRelations(columns, fks) ==
    [k \in DOMAIN columns |->
        IF \E r \in fks : r.column = k
        THEN LET r == CHOOSE r \in fks : r.column = k
             IN  [columns[k] EXCEPT !.relation = [table |-> r.ftable, column |-> r.fcolumn]]
        ELSE columns[k]]

\* discoverSingle after the batch was sent: [err, known, otherTables]
discoverSingle(c, d, knownTables, table) ==
    IF table \notin DOMAIN d
        THEN [err |-> "table not found", known |-> knownTables, otherTables |-> {}]
    ELSE IF d[table].comment.kind = "malformed"
        THEN [err |-> "failed to unmarshal table comment", known |-> knownTables,
              otherTables |-> {}]
    ELSE LET sc == scanColumns(c, d[table].columns, EmptyMap)
         IN  IF sc.err # None
                 THEN [err |-> sc.err, known |-> knownTables, otherTables |-> {}]
             ELSE IF \E r \in d[table].fks : r.column \notin DOMAIN sc.columns
                 THEN [err |-> "column not found in table", known |-> knownTables,
                       otherTables |-> {}]
             ELSE LET tableInfo == [name     |-> table,
                                    columns  |-> AttachRelations(sc.columns, d[table].fks),
                                    behavior |-> d[table].comment.kind]
                  IN  [err |-> None,
                       known |-> [k \in DOMAIN knownTables \cup {tableInfo.name} |->
                                     IF k = tableInfo.name THEN tableInfo ELSE knownTables[k]],
                       otherTables |-> OtherTables(d[table].fks)]

\* a recursion without the guard on known
ShouldRecurse_always(knownTables, table) == TRUE

\* the guard of the recursion in discoverWithRelations
ShouldRecurse(knownTables, table) == table \notin DOMAIN knownTables

----------------------------------------------------------------------------
(* Where expressions                                                       *)

\* a WhereExpression node: Filter is a pointer (no or one filter), And and Or
\* are slices of nodes
WhereNode(filter, and, or) == [filter |-> filter, and |-> and, or |-> or]

FilterLeaf(column, operator, value) ==
    WhereNode(<<[column |-> column, operator |-> operator, value |-> value]>>, <<>>, <<>>)

\* Filter.Validate: the error it returns
FilterValidateError(f) ==
    IF ~ColumnSelectorIsValid(f.column) THEN "invalid column"
    ELSE IF f.operator = "" THEN "missing operator"
    ELSE None

\* Filter.Validate: TRUE when it returns nil
FilterValidate(f) == FilterValidateError(f) = None

\* a path whose indices count from 1
PathAppend_oneBased(parent, op, idx) == Append(parent, [op |-> op, idx |-> idx + 1])

\* parent + fmt.Sprintf(".and[%d]", idx): the path grows by one segment, idx
\* counts from 0
PathAppend(parent, op, idx) == Append(parent, [op |-> op, idx |-> idx])

\* the first error among a slice of results, in slice order
FirstError(rs) ==
    IF \E i \in DOMAIN rs : rs[i].err # None
    THEN rs[CHOOSE i \in DOMAIN rs : rs[i].err # None /\ \A j \in 1..(i - 1) : rs[j].err = None]
    ELSE [err |-> None, path |-> <<>>]

\* WhereExpression.validateWithParent: [err, path]; the filter's error carries
\* no path, the two count errors carry the path of the node
RECURSIVE validateWithParent(_, _)
validateWithParent(f, parent) ==
    LET filterErr == IF f.filter # <<>> THEN FilterValidateError(f.filter[1]) ELSE None
        andErr == FirstError([i \in DOMAIN f.and |->
                      validateWithParent(f.and[i], PathAppend(parent, "and", i - 1))])
        orErr  == FirstError([i \in DOMAIN f.or |->
                      validateWithParent(f.or[i], PathAppend(parent, "or", i - 1))])
        active == (IF f.filter # <<>> THEN 1 ELSE 0)
                  + (IF Len(f.and) > 0 THEN 1 ELSE 0)
                  + (IF Len(f.or) > 0 THEN 1 ELSE 0)
    IN  IF filterErr # None THEN [err |-> filterErr, path |-> <<>>]
        ELSE IF andErr.err # None THEN andErr
        ELSE IF orErr.err # None THEN orErr
        ELSE IF active = 0 THEN [err |-> "missing expression", path |-> parent]
        ELSE IF active > 1 THEN [err |-> "multiple expressions", path |-> parent]
        ELSE [err |-> None, path |-> <<>>]

\* WhereExpression.Validate: TRUE when it returns nil
WhereValidate(e) == validateWithParent(e, <<>>).err = None

\* squirrel expressions: a comparison of a column with a value, a raw
\* expression with its arguments, a conjunction or a disjunction
SqCmp(kind, column, value) ==
    [kind |-> kind, column |-> column, value |-> value, parts |-> <<>>]

SqExpr(template, column, value) ==
    [kind |-> "Expr", template |-> template, column |-> column, value |-> value,
     parts |-> <<>>]

SqAnd(parts) == [kind |-> "And", parts |-> parts]

SqOr(parts) == [kind |-> "Or", parts |-> parts]

\* a nil interface value, a number that is 0, the empty string
NilValue == [kind |-> "null", text |-> ""]

ZeroValue == [kind |-> "number", text |-> "0"]

EmptyString == [kind |-> "string", text |-> ""]

\* "%" + s + "%", "%" + s, s + "%": the pattern built around the string s
Pattern(before, s, after) ==
    [kind |-> "string", text |-> s.text, before |-> before, after |-> after]

\* no expression (the compiler returned nil and an error)
NoSqlizer == [kind |-> "nil", parts |-> <<>>]

\* EqualsFilterOperations
EqualsCompile(op, c, value) ==
    [err |-> None,
     expr |-> IF op = "equals" THEN SqCmp("Eq", c, value) ELSE SqCmp("NotEq", c, value)]

\* a comparison without the guard against NULL
CompareCompile_unguarded(op, c, value) ==
    [err |-> None,
     expr |-> SqCmp(CASE op = "greater" -> "Gt"
                      [] op = "greaterOrEquals" -> "GtOrEq"
                      [] op = "less" -> "Lt"
                      [] OTHER -> "LtOrEq", c, value)]

\* CompareFilterOperations
CompareCompile(op, c, value) ==
    [err |-> None,
     expr |-> SqAnd(<<SqCmp("NotEq", c, NilValue),
                      SqCmp(CASE op = "greater" -> "Gt"
                              [] op = "greaterOrEquals" -> "GtOrEq"
                              [] op = "less" -> "Lt"
                              [] OTHER -> "LtOrEq", c, value)>>)]

\* NumberZeroFilterOperations
NumberZeroCompile(op, c, value) ==
    [err |-> None,
     expr |-> IF op = "isSpecified"
              THEN SqAnd(<<SqCmp("NotEq", c, NilValue), SqCmp("NotEq", c, ZeroValue)>>)
              ELSE SqOr(<<SqCmp("Eq", c, NilValue), SqCmp("Eq", c, ZeroValue)>>)]

\* TextFilterOperations: the pattern operators accept only a string
TextCompile(op, c, v) ==
    IF op \in {"contains", "endsWith", "notContains", "startsWith"} /\ v.kind # "string"
    THEN [err |-> "only supported for string", expr |-> NoSqlizer]
    ELSE [err |-> None,
          expr |->
            CASE op = "contains" ->
                   SqAnd(<<SqCmp("NotEq", c, NilValue), SqCmp("ILike", c, Pattern("%", v, "%"))>>)
              [] op = "endsWith" ->
                   SqAnd(<<SqCmp("NotEq", c, NilValue), SqCmp("ILike", c, Pattern("%", v, ""))>>)
              [] op = "notContains" ->
                   SqOr(<<SqCmp("Eq", c, NilValue), SqCmp("NotILike", c, Pattern("%", v, "%"))>>)
              [] op = "isNotSpecified" ->
                   SqOr(<<SqCmp("Eq", c, NilValue), SqCmp("Eq", c, EmptyString)>>)
              [] op = "isSpecified" ->
                   SqAnd(<<SqCmp("NotEq", c, NilValue), SqCmp("NotEq", c, EmptyString)>>)
              [] OTHER ->
                   SqAnd(<<SqCmp("NotEq", c, NilValue), SqCmp("ILike", c, Pattern("", v, "%"))>>)]

\* TimestampFilterOperations
TimestampCompile(op, c, v) ==
    [err |-> None,
     expr |-> CASE op = "after" -> SqAnd(<<SqCmp("NotEq", c, NilValue), SqCmp("Gt", c, v)>>)
                [] op = "before" -> SqAnd(<<SqCmp("NotEq", c, NilValue), SqCmp("Lt", c, v)>>)
                [] op = "isNotSpecified" -> SqCmp("Eq", c, NilValue)
                [] OTHER -> SqCmp("NotEq", c, NilValue)]

\* ArrayFilterOperations: sq.Expr(fmt.Sprintf(<template>, c), v)
ArrayCompile(op, c, v) ==
    [err |-> None,
     expr |-> CASE op = "containsElement" ->
                     SqAnd(<<SqCmp("NotEq", c, NilValue), SqExpr("? = ANY (%s)", c, v)>>)
                [] op = "hasAnyElement" ->
                     SqAnd(<<SqCmp("NotEq", c, NilValue), SqExpr("CARDINALITY(%s)>0", c, v)>>)
                [] op = "hasNoElements" ->
                     SqOr(<<SqCmp("Eq", c, NilValue), SqExpr("CARDINALITY(%s)=0", c, v)>>)
                [] OTHER ->
                     SqOr(<<SqCmp("Eq", c, NilValue), SqExpr("NOT (? = ANY (%s))", c, v)>>)]

\* the map of DefaultFilterOperations that the operator of a data type comes from
CompilerMap(dt, op) ==
    CASE dt \in {"bigint", "double precision", "integer", "real"} ->
           IF op \in EqualsFilterOperations THEN "Equals"
           ELSE IF op \in CompareFilterOperations THEN "Compare" ELSE "NumberZero"
      [] dt = "text" -> IF op \in EqualsFilterOperations THEN "Equals" ELSE "Text"
      [] dt = "text[]" -> "Array"
      [] dt = "timestamp without time zone" -> "Timestamp"
      [] OTHER -> "Equals"

\* op(cb.StringQuoted(), f.Value) for the op found at filterOps[dt][operator]:
\* [err, expr]
ApplyCompiler(dt, operator, column, value) ==
    LET m == CompilerMap(dt, operator)
    IN  CASE m = "Equals" -> EqualsCompile(operator, column, value)
          [] m = "Compare" -> CompareCompile(operator, column, value)
          [] m = "NumberZero" -> NumberZeroCompile(operator, column, value)
          [] m = "Text" -> TextCompile(operator, column, value)
          [] m = "Timestamp" -> TimestampCompile(operator, column, value)
          [] OTHER -> ArrayCompile(operator, column, value)

\* a predicate compiler of the registry applied to a quoted column and a value
CompilePredicate(dt, operator, column, value) ==
    LET x == ApplyCompiler(dt, operator, column, value)
    IN  IF x.err # None THEN [err |-> x.err]
        ELSE [err |-> None,
              pred |-> [kind |-> "filter", operator |-> operator, column |-> column,
                        value |-> value, parts |-> <<>>, expr |-> x.expr]]

\* the "?" placeholder of squirrel
Placeholder == "?"

\* strings.Join(parts, sep) on token sequences
RECURSIVE JoinWith(_, _)
JoinWith(parts, sep) ==
    IF parts = <<>> THEN <<>>
    ELSE IF Len(parts) = 1 THEN parts[1]
    ELSE parts[1] \o <<sep>> \o JoinWith(Tail(parts), sep)

\* append(args, partArgs...) over the parts
RECURSIVE ConcatAll(_)
ConcatAll(seqs) == IF seqs = <<>> THEN <<>> ELSE Head(seqs) \o ConcatAll(Tail(seqs))

\* fmt.Sprintf(template, c) of the array compilers
Sprintf(template, c) ==
    CASE template = "? = ANY (%s)" -> <<Placeholder, " = ANY (">> \o c \o <<")">>
      [] template = "CARDINALITY(%s)>0" -> <<"CARDINALITY(">> \o c \o <<")>0">>
      [] template = "CARDINALITY(%s)=0" -> <<"CARDINALITY(">> \o c \o <<")=0">>
      [] OTHER -> <<"NOT (", Placeholder, " = ANY (">> \o c \o <<"))">>

\* sq.Expr(sql, args...).ToSql: the arguments are returned as given
ExprArgs(x) == <<x.value>>

\* Sqlizer.ToSql of squirrel's Eq, NotEq, Gt, GtOrEq, Lt, LtOrEq, ILike,
\* NotILike, Expr, And and Or: [err, sql, args]
RECURSIVE ToSql(_)
ToSql(x) ==
    LET ok(sql, args) == [err |-> None, sql |-> sql, args |-> args]
        fail(e) == [err |-> e, sql |-> <<>>, args |-> <<>>]
        parts == [i \in DOMAIN x.parts |-> ToSql(x.parts[i])]
        kept  == SelectSeq(parts, LAMBDA r : r.sql # <<>>)
        conj(sep, default) ==
            IF x.parts = <<>> THEN ok(<<default>>, <<>>)
            ELSE IF \E i \in DOMAIN parts : parts[i].err # None
            THEN fail(parts[CHOOSE i \in DOMAIN parts :
                              /\ parts[i].err # None
                              /\ \A j \in 1..(i - 1) : parts[j].err = None].err)
            ELSE IF kept = <<>> THEN ok(<<>>, <<>>)
            ELSE ok(<<"(">> \o JoinWith([i \in DOMAIN kept |-> kept[i].sql], sep) \o <<")">>,
                    ConcatAll([i \in DOMAIN kept |-> kept[i].args]))
        equality(isNull, empty, in, opr) ==
            IF x.value.kind = "null" THEN ok(x.column \o <<isNull>>, <<>>)
            ELSE IF x.value.kind = "list"
            THEN IF x.value.items = <<>> THEN ok(<<empty>>, <<>>)
                 ELSE ok(x.column \o <<in>>
                            \o JoinWith([i \in DOMAIN x.value.items |-> <<Placeholder>>], ",")
                            \o <<")">>,
                         x.value.items)
            ELSE ok(x.column \o <<opr, Placeholder>>, <<x.value>>)
        ordering(opr) ==
            IF x.value.kind = "null"
            THEN fail("cannot use null with less than or greater than operators")
            ELSE IF x.value.kind = "list"
            THEN fail("cannot use array or slice with less than or greater than operators")
            ELSE ok(x.column \o <<opr, Placeholder>>, <<x.value>>)
    IN  CASE x.kind = "Eq" -> equality(" IS NULL", "(1=0)", " IN (", " = ")
          [] x.kind = "NotEq" -> equality(" IS NOT NULL", "(1=1)", " NOT IN (", " <> ")
          [] x.kind = "Gt" -> ordering(" > ")
          [] x.kind = "GtOrEq" -> ordering(" >= ")
          [] x.kind = "Lt" -> ordering(" < ")
          [] x.kind = "LtOrEq" -> ordering(" <= ")
          [] x.kind = "ILike" -> ok(x.column \o <<" ILIKE ", Placeholder>>, <<x.value>>)
          [] x.kind = "NotILike" -> ok(x.column \o <<" NOT ILIKE ", Placeholder>>, <<x.value>>)
          [] x.kind = "Expr" -> ok(Sprintf(x.template, x.column), ExprArgs(x))
          [] x.kind = "And" -> conj(" AND ", "(1=1)")
          [] x.kind = "Or" -> conj(" OR ", "(1=0)")
          [] OTHER -> fail("nil Sqlizer")

\* WhereExpression.toSQL: [err, pred, cols]
RECURSIVE toSQL(_, _, _, _)
toSQL(filterOps, tables, base, expr) ==
    LET fl == FlattenColumns(tables, base)
        colSelectors == EntriesToMap(fl.entries)
        fail(e) == [err |-> e, pred |-> <<>>, cols |-> {}]
        subs(items) == [i \in DOMAIN items |-> toSQL(filterOps, tables, base, items[i])]
        combine(kind, items) ==
            LET rs == subs(items)
            IN  IF \E i \in DOMAIN rs : rs[i].err # None
                THEN fail(rs[CHOOSE i \in DOMAIN rs :
                                 rs[i].err # None /\ \A j \in 1..(i - 1) : rs[j].err = None].err)
                ELSE [err |-> None,
                      pred |-> <<[kind |-> kind, operator |-> "", column |-> <<>>,
                                  value |-> [kind |-> "null", text |-> ""],
                                  parts |-> [i \in DOMAIN rs |-> rs[i].pred[1]],
                                  expr |-> IF kind = "and"
                                           THEN SqAnd([i \in DOMAIN rs |-> rs[i].pred[1].expr])
                                           ELSE SqOr([i \in DOMAIN rs |-> rs[i].pred[1].expr])]>>,
                      cols |-> UNION {rs[i].cols : i \in DOMAIN rs}]
    IN  IF fl.outcomes # {"ok"} THEN fail("failed to flatten")
        ELSE IF expr.filter # <<>> THEN
            LET f  == expr.filter[1]
                dt == IF f.column \in DOMAIN colSelectors
                      THEN colSelectors[f.column].dataType ELSE ""
            IN  IF ~Registered(filterOps, dt, f.operator)
                THEN fail("unsupported filter operation")
                ELSE LET cb == ConvertColumnSelector(tables, base, f.column)
                     IN  IF cb.err # None THEN fail(cb.err)
                         ELSE LET x == CompilePredicate(dt, f.operator, StringQuoted(cb.full),
                                                          f.value)
                              IN  IF x.err # None THEN fail(x.err)
                                  ELSE [err |-> None, pred |-> <<x.pred>>, cols |-> {cb.full}]
        ELSE IF Len(expr.and) > 0 THEN combine("and", expr.and)
        ELSE IF Len(expr.or) > 0 THEN combine("or", expr.or)
        ELSE fail("invalid where expression")

----------------------------------------------------------------------------
(* Query planning                                                          *)

\* Query.Validate: [err, cause, path], cause and path being those of the where
\* expression's validation
QueryValidateError(q) ==
    LET plain(e) == [err |-> e, cause |-> e, path |-> <<>>]
        v == IF q.where # <<>> THEN validateWithParent(q.where[1], <<>>)
             ELSE [err |-> None, path |-> <<>>]
    IN  IF Len(q.select) = 0 THEN plain("missing select")
        ELSE IF ~TableIsValid(q.from) THEN plain("invalid from")
        ELSE IF v.err # None
            THEN [err |-> "invalid filter expression", cause |-> v.err, path |-> v.path]
        ELSE IF q.limit < 1 THEN plain("invalid limit")
        ELSE plain(None)

\* a validation that lets every limit through
QueryValidate_anyLimit(q) ==
    /\ Len(q.select) # 0
    /\ TableIsValid(q.from)
    /\ q.where # <<>> => WhereValidate(q.where[1])

\* Query.Validate: TRUE when it returns nil
QueryValidate(q) == QueryValidateError(q).err = None

\* joins remembered by the foreign table instead of by the path
JoinKey_lastTable(target) == <<GetLastTable(target)>>

\* the key under which processJoins remembers a join: the prefix of the target
JoinKey(target) == SplitAtLastColumn(target).prefix

tableJoin(useLeftJoin, from, to) == [useLeftJoin |-> useLeftJoin, from |-> from, to |-> to]

\* the inner loop of processJoins over one used selector, from index i on
RECURSIVE joinsOfSelector(_, _, _, _, _, _)
joinsOfSelector(tables, ts, cols, i, parentNull, acc) ==
    IF i > Len(ts) - 1 THEN acc
    ELSE
        LET source == ColumnSelectorRebuild(SubSeq(ts, 1, i), SubSeq(cols, 1, i))
            target == ColumnSelectorRebuild(SubSeq(ts, 1, i + 1), SubSeq(cols, 1, i + 1))
            prefix == JoinKey(target)
            fail(e) == [acc EXCEPT !.err = e]
        IN  IF prefix \in acc.alreadyJoined
                THEN joinsOfSelector(tables, ts, cols, i + 1, parentNull, acc)
            ELSE IF ts[i] \notin DOMAIN tables THEN fail("invalid (source) table")
            ELSE IF cols[i] \notin DOMAIN tables[ts[i]].columns
                THEN fail("invalid (source) column")
            ELSE IF ts[i + 1] \notin DOMAIN tables THEN fail("invalid foreign table")
            ELSE
                LET sourceCol == tables[ts[i]].columns[cols[i]]
                IN  IF sourceCol.relation = NoRelation
                        THEN fail("invalid foreign column, no relation")
                    ELSE IF sourceCol.relation.table # tables[ts[i + 1]].name
                        THEN fail("invalid foreign column, foreign table does not match")
                    ELSE
                        LET null == parentNull \/ sourceCol.isNullable
                        IN  joinsOfSelector(tables, ts, cols, i + 1, null,
                                [err |-> None,
                                 alreadyJoined |-> acc.alreadyJoined \cup {prefix},
                                 result |-> Append(acc.result,
                                     tableJoin(null, source,
                                         ReplaceLastColumn(target, sourceCol.relation.column)))])

\* the outer loop of processJoins, ranging over columnsUsed in the order `order`
RECURSIVE joinsOfAll(_, _, _)
joinsOfAll(tables, order, acc) ==
    IF order = <<>> \/ acc.err # None THEN acc
    ELSE LET b == Breakdown(Head(order))
         IN  joinsOfAll(tables, Tail(order),
                IF Len(b.tables) = 1 THEN acc
                ELSE joinsOfSelector(tables, b.tables, b.columns, 1, FALSE, acc))

\* processJoins: [err, result]
processJoins(tables, order) ==
    joinsOfAll(tables, order, [err |-> None, alreadyJoined |-> {}, result |-> <<>>])

\* a squirrel SelectBuilder
SelectBuilder(columns, from, limit, offset) ==
    [columns |-> columns, from |-> from, joins |-> <<>>, where |-> <<>>,
     orderBy |-> <<>>, limit |-> limit, offset |-> offset]

emptySelect == SelectBuilder(<<>>, <<>>, <<>>, <<>>)

\* the join clause text: "<table>" AS "<prefix>" ON <from> = <to>
JoinExpr(j) ==
    <<Quote, GetLastTable(j.to), Quote, " AS ", Quote>> \o SplitAtLastColumn(j.to).prefix
        \o <<Quote, " ON ">> \o StringQuoted(j.from) \o <<" = ">> \o StringQuoted(j.to)

\* qPage.LeftJoin / qPage.InnerJoin
PageJoin(q, j) ==
    [q EXCEPT !.joins = Append(@, [kind |-> IF j.useLeftJoin THEN "LEFT JOIN" ELSE "JOIN",
                                   expr |-> JoinExpr(j)])]

\* qTotal.LeftJoin / qTotal.InnerJoin
TotalJoin(q, j) ==
    [q EXCEPT !.joins = Append(@, [kind |-> IF j.useLeftJoin THEN "LEFT JOIN" ELSE "JOIN",
                                   expr |-> JoinExpr(j)])]

\* a total query that is not given the where predicate
TotalWhere_dropped(q, qf) == q

\* qPage.Where(qf) and qTotal.Where(qf)
PageWhere(q, qf) == [q EXCEPT !.where = Append(@, qf)]

TotalWhere(q, qf) == [q EXCEPT !.where = Append(@, qf)]

\* the joins added to the statements from the last to the first
RECURSIVE appendJoins_reversed(_, _, _)
appendJoins_reversed(qs, joins, i) ==
    IF i > Len(joins) THEN qs
    ELSE LET j == joins[Len(joins) + 1 - i]
         IN  appendJoins_reversed([page |-> PageJoin(qs.page, j),
                                   total |-> TotalJoin(qs.total, j)], joins, i + 1)

\* for _, j := range joins: the joins are added to both statements in the
\* order processJoins returned them
RECURSIVE appendJoins(_, _, _)
appendJoins(qs, joins, i) ==
    IF i > Len(joins) THEN qs
    ELSE appendJoins([page |-> PageJoin(qs.page, joins[i]),
                      total |-> TotalJoin(qs.total, joins[i])], joins, i + 1)

\* the ORDER BY loop of convertQuery: [err, page]
RECURSIVE orderByLoop(_, _, _, _, _, _)
orderByLoop(tables, from, orderBy, i, columnsUsed, page) ==
    IF i > Len(orderBy) THEN [err |-> None, page |-> page]
    ELSE LET cs == ConvertColumnSelector(tables, from, orderBy[i].column)
         IN  IF cs.err # None THEN [err |-> cs.err, page |-> page]
             ELSE IF cs.full \notin columnsUsed
                 THEN [err |-> "invalid order by column selector, not used in select",
                       page |-> emptySelect]
             ELSE orderByLoop(tables, from, orderBy, i + 1, columnsUsed,
                     [page EXCEPT !.orderBy =
                         Append(@, StringQuoted(cs.full)
                                   \o (IF orderBy[i].isDescending THEN <<" DESC">> ELSE <<>>))])

\* PlaceholderFormat(sq.Dollar): the k-th "?" becomes "$k"
ReplacePlaceholders(sql, k) ==
    [i \in DOMAIN sql |->
        IF sql[i] = Placeholder
        THEN "$" \o ToString(k - 1 + Cardinality({j \in 1..i : sql[j] = Placeholder}))
        ELSE sql[i]]

\* a statement that could not be rendered
NoStatement(e) == [err |-> e, sql |-> <<>>, args |-> <<>>]

\* SelectBuilder.ToSql: [err, sql, args]; the where parts are joined by AND,
\* LIMIT and OFFSET are written into the text
SelectToSql(q) ==
    LET ws == [i \in DOMAIN q.where |-> ToSql(q.where[i].expr)]
        number(xs) == [i \in DOMAIN xs |-> ToString(xs[i])]
    IN  IF q.columns = <<>>
        THEN NoStatement("select statements must have at least one result column")
        ELSE IF \E i \in DOMAIN ws : ws[i].err # None
        THEN NoStatement(ws[CHOOSE i \in DOMAIN ws :
                               /\ ws[i].err # None
                               /\ \A j \in 1..(i - 1) : ws[j].err = None].err)
        ELSE [err  |-> None,
              sql  |-> ReplacePlaceholders(
                          <<"SELECT ">> \o JoinWith(q.columns, ", ")
                          \o <<" FROM ">> \o q.from
                          \o ConcatAll([i \in DOMAIN q.joins |->
                                          <<" ", q.joins[i].kind, " ">> \o q.joins[i].expr])
                          \o (IF q.where = <<>> THEN <<>>
                              ELSE <<" WHERE ">>
                                   \o JoinWith([i \in DOMAIN ws |-> ws[i].sql], " AND "))
                          \o (IF q.orderBy = <<>> THEN <<>>
                              ELSE <<" ORDER BY ">> \o JoinWith(q.orderBy, ", "))
                          \o (IF q.limit = <<>> THEN <<>> ELSE <<" LIMIT ">> \o number(q.limit))
                          \o (IF q.offset = <<>> THEN <<>>
                              ELSE <<" OFFSET ">> \o number(q.offset)), 1),
              args |-> ConcatAll([i \in DOMAIN ws |-> ws[i].args])]

\* the iteration orders of a set
Orders(S) == SetToSeqs(S)

\* an error return of convertQuery: err is the message of the outermost
\* wrapping, cause the message of the error that was wrapped
FailedPlan(e) ==
    [err |-> e, cause |-> e, qPage |-> emptySelect, qTotal |-> emptySelect,
     joins |-> <<>>, columnsUsed |-> {}]

\* columnsUsed as convertQuery hands it to processJoins ({} when it fails before)
UsedColumns(c, tables, query) ==
    LET sel == [i \in DOMAIN query.select |->
                   ConvertColumnSelector(tables, query.from, query.select[i])]
        w   == IF query.where # <<>>
               THEN toSQL(c.FilterOperations, tables, query.from, query.where[1])
               ELSE [err |-> None, pred |-> <<>>, cols |-> {}]
    IN  IF (\E i \in DOMAIN sel : sel[i].err # None) \/ w.err # None THEN {}
        ELSE {sel[i].full : i \in DOMAIN sel} \cup w.cols

\* API.convertQuery, processJoins ranging over columnsUsed in the order `order`
convertQuery(c, tables, query, order) ==
    LET sel == [i \in DOMAIN query.select |->
                   ConvertColumnSelector(tables, query.from, query.select[i])]
    IN  IF \E i \in DOMAIN sel : sel[i].err # None
        THEN [FailedPlan("failed to convert column selector") EXCEPT
                !.cause = sel[CHOOSE i \in DOMAIN sel :
                                /\ sel[i].err # None
                                /\ \A j \in 1..(i - 1) : sel[j].err = None].err]
        ELSE
        LET selectors == [i \in DOMAIN sel |-> sel[i].full]
            page0  == SelectBuilder([i \in DOMAIN selectors |-> StringQuoted(selectors[i])],
                                    TableStringQuoted(query.from),
                                    <<query.limit>>, <<query.offset>>)
            total0 == SelectBuilder(<<<<"count(*)">>>>, TableStringQuoted(query.from),
                                    <<>>, <<>>)
            w      == IF query.where # <<>>
                      THEN toSQL(c.FilterOperations, tables, query.from, query.where[1])
                      ELSE [err |-> None, pred |-> <<>>, cols |-> {}]
        IN  IF w.err # None
            THEN [FailedPlan("invalid filter expression") EXCEPT !.cause = w.err]
            ELSE
            LET columnsUsed == Range(selectors) \cup w.cols
                page1  == IF query.where # <<>> THEN PageWhere(page0, w.pred[1]) ELSE page0
                total1 == IF query.where # <<>> THEN TotalWhere(total0, w.pred[1]) ELSE total0
                pj     == processJoins(tables, order)
            IN  IF pj.err # None
                THEN [FailedPlan("invalid foreign relations") EXCEPT !.cause = pj.err]
                ELSE
                LET qs == appendJoins([page |-> page1, total |-> total1], pj.result, 1)
                    ob == orderByLoop(tables, query.from, query.orderBy, 1, columnsUsed, qs.page)
                IN  IF ob.err # None
                    THEN [FailedPlan(ob.err) EXCEPT
                            !.qPage = ob.page,
                            !.qTotal = IF ob.page = emptySelect THEN emptySelect ELSE qs.total]
                    ELSE [err |-> None, cause |-> None, qPage |-> ob.page,
                          qTotal |-> qs.total, joins |-> pj.result,
                          columnsUsed |-> columnsUsed]

----------------------------------------------------------------------------
(* Inputs                                                                  *)

\* a JSON value of a comment key: absent, or present with a value
AbsentKey == [present |-> FALSE]

PresentKey(v) == [present |-> TRUE, value |-> v]

\* a JSON object of a column comment: the keys present and their values
CommentObject(sorting, filtering, omit, ops) ==
    [keys |-> (IF sorting.present THEN {"allowSorting"} ELSE {})
              \cup (IF filtering.present THEN {"allowFiltering"} ELSE {})
              \cup (IF omit.present THEN {"omitDefaultFilterOperations"} ELSE {})
              \cup (IF ops.present THEN {"filterOperations"} ELSE {}),
     val  |-> [properties |-> None,
               allowSorting |-> IF sorting.present THEN sorting.value ELSE FALSE,
               allowFiltering |-> IF filtering.present THEN filtering.value ELSE FALSE,
               omitDefaultFilterOperations |-> IF omit.present THEN omit.value ELSE FALSE,
               filterOperations |-> IF ops.present THEN ops.value ELSE <<>>]]

OptionalBool == {AbsentKey, PresentKey(TRUE), PresentKey(FALSE)}

\* comments of a text column: none, empty, not JSON, or a JSON object
Comments ==
    {NilComment, [kind |-> "empty"], [kind |-> "malformed"]}
    \cup {[kind |-> "object", obj |-> CommentObject(s, f, o, ops)] :
            s \in OptionalBool, f \in OptionalBool, o \in OptionalBool,
            ops \in {AbsentKey, PresentKey(<<>>),
                     PresentKey(<<"notEquals", "contains", "notEquals">>),
                     PresentKey(<<"greater">>)}}

\* defaults of the text data type
TextDefaults ==
    {ColumnBehavior(None, s, f, o, ops) :
        s \in BOOLEAN, f \in BOOLEAN, o \in BOOLEAN,
        ops \in {<<>>, <<"notEquals", "equals">>, <<"equals", "startsWith", "equals">>}}

IntegerDefault == ColumnBehavior(None, TRUE, FALSE, FALSE, <<>>)

MakeConfig(textDefault) ==
    [Schema |-> defaultSchema,
     DefaultLimit |-> defaultLimit,
     FilterOperations |-> DefaultFilterOperations,
     ColumnDefaults |->
        [dt \in {"integer", "bigint", "text"} |->
            IF dt = "text" THEN textDefault ELSE IntegerDefault]]

\* the text default of TestDiscoverAndQueryData
TestTextDefault ==
    ColumnBehavior(None, FALSE, TRUE, FALSE, <<"contains", "equals", "notEquals", "notContains">>)

BaseTables == {"tableA", "tableB", "tableE", "tableX"}

----------------------------------------------------------------------------
(* Discover                                                                *)

\* DiscoverResult{}
NoResult == [baseTable |-> None, tablesMetadata |-> EmptyMap, columnsMetadata |-> EmptyMap]

\* no convertQuery call was made yet
NoPlan == [called |-> FALSE]

\* no API.Query call was made yet
NoCall == [called |-> FALSE]

\* NewAPI was not called yet
NoAPI == [built |-> FALSE]

\* no predicate compiler was applied yet
NoCompiled == [done |-> FALSE]

\* number of goroutines that call API.Query with the same catalog
NumCalls == 2

CallIds == 1..NumCalls

\* a goroutine that has not called API.Query
IdleCall == [pc |-> "idle"]

Frame(table, pc, others) == [table |-> table, pc |-> pc, others |-> others]

Top == stack[Len(stack)]

SetTop(f) == [stack EXCEPT ![Len(stack)] = f]

Pop == SubSeq(stack, 1, Len(stack) - 1)

InitState ==
    /\ status = "idle"
    /\ baseTable = None
    /\ known = EmptyMap
    /\ stack = <<>>
    /\ txOpen = {}
    /\ batches = [t \in BaseTables \cup Tables |-> 0]
    /\ txBegun = [t \in BaseTables \cup Tables |-> 0]
    /\ result = NoResult
    /\ discoverErr = None
    /\ plan = NoPlan
    /\ call = NoCall
    /\ compiled = NoCompiled
    /\ calls = [p \in CallIds |-> IdleCall]

\* the API was built by NewAPI from the Config cfg
InitCommon ==
    /\ InitState
    /\ api \in NewAPI(cfg)

\* an API built by NewAPI over a catalog: behavior merging is varied on the
\* plain schema, the schema variations run with the defaults of the test
Init ==
    /\ \/ \E comment \in Comments, textDefault \in TextDefaults :
            /\ cfg = MakeConfig(textDefault)
            /\ db = MakeDB("plain", FALSE, TRUE, TRUE, comment)
       \/ \E variant \in DBVariants, nb \in BOOLEAN :
            /\ cfg = MakeConfig(TestTextDefault)
            /\ db = MakeDB(variant, nb, TRUE, TRUE, NilComment)
    /\ ConfigValidate(cfg)
    /\ InitCommon

\* an API built with the defaults of the test over every schema variation and
\* every nullability of the three relation columns
InitSchemas ==
    /\ \E variant \in DBVariants, nb \in BOOLEAN, nb2 \in BOOLEAN, nc \in BOOLEAN :
            /\ cfg = MakeConfig(TestTextDefault)
            /\ db = MakeDB(variant, nb, nb2, nc, NilComment)
    /\ ConfigValidate(cfg)
    /\ InitCommon

\* Discover is called: discoverWithRelations(ctx, conn, tables, baseTable)
Discover(t) ==
    /\ status = "idle"
    /\ status' = "discovering"
    /\ baseTable' = t
    /\ known' = EmptyMap
    /\ stack' = <<Frame(t, "begin", {})>>
    /\ UNCHANGED <<cfg, db, txOpen, batches, txBegun, result, discoverErr, plan, call,
                   api, compiled, calls>>

\* discoverSingle: conn.BeginTx
BeginTx ==
    /\ status = "discovering"
    /\ stack # <<>>
    /\ Top.pc = "begin"
    /\ txOpen' = txOpen \cup {Top.table}
    /\ txBegun' = [txBegun EXCEPT ![Top.table] = @ + 1]
    /\ stack' = SetTop(Frame(Top.table, "batch", {}))
    /\ UNCHANGED <<cfg, db, status, baseTable, known, batches, result, discoverErr, plan, call,
                   api, compiled, calls>>

\* discoverSingle: tx.SendBatch, the three result sets, and on return the
\* deferred results.Close and tx.Commit; an error unwinds discoverWithRelations
SendBatch ==
    /\ status = "discovering"
    /\ stack # <<>>
    /\ Top.pc = "batch"
    /\ LET r == discoverSingle(cfg, db, known, Top.table)
       IN  /\ batches' = [batches EXCEPT ![Top.table] = @ + 1]
           /\ txOpen' = txOpen \ {Top.table}
           /\ known' = r.known
           /\ discoverErr' = r.err
           /\ IF r.err # None
              THEN status' = "error" /\ stack' = <<>>
              ELSE status' = status /\ stack' = SetTop(Frame(Top.table, "loop", r.otherTables))
    /\ UNCHANGED <<cfg, db, baseTable, txBegun, result, plan, call,
                   api, compiled, calls>>

\* discoverWithRelations: one iteration of "for table := range otherTables";
\* a recursion deeper than MaxDepth frames exhausts the stack
LoopNext ==
    /\ status = "discovering"
    /\ stack # <<>>
    /\ Top.pc = "loop"
    /\ \E table \in Top.others :
          LET rest == SetTop(Frame(Top.table, "loop", Top.others \ {table}))
          IN  IF ~ShouldRecurse(known, table)
              THEN stack' = rest /\ status' = status
              ELSE IF Len(stack) >= MaxDepth
              THEN stack' = <<>> /\ status' = "recursion_overflow"
              ELSE stack' = Append(rest, Frame(table, "begin", {})) /\ status' = status
    /\ UNCHANGED <<cfg, db, baseTable, known, txOpen, batches, txBegun, result, discoverErr,
                   plan, call,
                   api, compiled, calls>>

\* discoverWithRelations returns nil to its caller
Return ==
    /\ status = "discovering"
    /\ stack # <<>>
    /\ Top.pc = "loop"
    /\ Top.others = {}
    /\ stack' = Pop
    /\ UNCHANGED <<cfg, db, status, baseTable, known, txOpen, batches, txBegun, result,
                   discoverErr, plan, call,
                   api, compiled, calls>>

\* Discover after discoverWithRelations returned nil: Validate, FlattenColumns
FinishDiscover ==
    /\ status = "discovering"
    /\ stack = <<>>
    /\ IF ~TablesValidate(known)
       THEN status' = "error" /\ result' = NoResult
            /\ discoverErr' = "invalid table metadata"
       ELSE LET fl == FlattenColumns(known, baseTable)
            IN  \E outcome \in fl.outcomes :
                  CASE outcome = "ok" ->
                         /\ status' = "done"
                         /\ discoverErr' = None
                         /\ result' = [baseTable |-> baseTable,
                                       tablesMetadata |-> known,
                                       columnsMetadata |-> EntriesToMap(fl.entries)]
                    [] outcome = "err" ->
                         /\ status' = "error" /\ result' = NoResult
                         /\ discoverErr' = "failed to index metadata by columns"
                    [] OTHER ->
                         /\ status' = "overflow" /\ result' = NoResult
                         /\ discoverErr' = discoverErr
    /\ UNCHANGED <<cfg, db, baseTable, known, stack, txOpen, batches, txBegun, plan, call,
                   api, compiled, calls>>

NextDiscover ==
    \/ \E t \in BaseTables : Discover(t)
    \/ BeginTx
    \/ SendBatch
    \/ LoopNext
    \/ Return
    \/ FinishDiscover

Spec == Init /\ [][NextDiscover]_vars

\* a Discover call that was started runs on: every step of it is sequential code
\* of one goroutine (the database answers every round trip)
DiscoverSteps == BeginTx \/ SendBatch \/ LoopNext \/ Return \/ FinishDiscover

FairSpec == InitSchemas /\ [][NextDiscover]_vars /\ WF_vars(DiscoverSteps)

----------------------------------------------------------------------------
(* Query: validation and planning                                          *)

Sel(cols) == NewColumnSelector(cols)

StringValue(text) == [kind |-> "string", text |-> text]

NumberValue(text) == [kind |-> "number", text |-> text]

\* the user selectors that select lists are drawn from
SelectChoices ==
    {Sel(<<"id">>), Sel(<<"other_b", "id">>), Sel(<<"other_b", "other_c", "name">>),
     Sel(<<"other_b", "other_c", "description">>),
     Sel(<<"other_b2", "other_c", "description">>), Sel(<<"other_b2", "id">>),
     Sel(<<"other_c", "description">>), Sel(<<"missing">>)}

\* select lists without repetition of at most MaxSelect selectors
SelectLists ==
    UNION {SetToSeqs(S) : S \in {T \in SUBSET SelectChoices :
                                    Cardinality(T) >= 1 /\ Cardinality(T) <= MaxSelect}}

MakeQuery(select, from, where, orderBy, limit) ==
    [select |-> select, from |-> from, where |-> where, orderBy |-> orderBy,
     limit |-> limit, offset |-> 0]

OrderBy(column, isDescending) == [column |-> column, isDescending |-> isDescending]

WhereChoices ==
    {FilterLeaf(Sel(<<"other_b2", "name">>), "equals", StringValue("x")),
     FilterLeaf(Sel(<<"name">>), "contains", NumberValue("1")),
     FilterLeaf(Sel(<<"id">>), "contains", StringValue("x")),
     WhereNode(<<>>,
               <<FilterLeaf(Sel(<<"other_b", "id">>), "greater", NumberValue("1")),
                 FilterLeaf(Sel(<<"other_b", "other_c", "description">>), "contains",
                            StringValue(" "))>>,
               <<>>),
     WhereNode(<<>>, <<>>,
               <<FilterLeaf(Sel(<<"other_b", "id">>), "equals", NumberValue("1")),
                 FilterLeaf(Sel(<<"name">>), "notEquals", StringValue("x"))>>),
     WhereNode(<<>>, <<>>, <<>>)}

\* single filters: operators inside and outside the column's filterOperations,
\* operators of another data type, on columns with and without allowFiltering,
\* over selectors that resolve and selectors that do not
LeafChoices ==
    {FilterLeaf(Sel(<<"name">>), "startsWith", StringValue("x")),
     FilterLeaf(Sel(<<"id">>), "greater", NumberValue("1")),
     FilterLeaf(Sel(<<"other_b", "other_c", "name">>), "greater", NumberValue("1")),
     FilterLeaf(Sel(<<"other_b", "other_c", "name">>), "isSpecified", StringValue("")),
     FilterLeaf(Sel(<<"other_b", "other_c">>), "less", StringValue("x")),
     FilterLeaf(Sel(<<"missing">>), "equals", StringValue("x")),
     FilterLeaf(Sel(<<"name", "id">>), "equals", NumberValue("1")),
     FilterLeaf(Sel(<<"other_b", "missing">>), "equals", NumberValue("1"))}

GoodLeaf == FilterLeaf(Sel(<<"name">>), "equals", StringValue("x"))

\* where expressions of one level: every combination of no filter, a valid
\* one, one with an invalid column, one without operator, with and/or slices
\* that are empty or hold valid leaves, an invalid leaf, or a node with nothing set
WhereLevel ==
    LET g == GoodLeaf.filter[1]
        filters == {<<>>, <<g>>, <<[g EXCEPT !.column = Sel(<<"x">>)]>>,
                    <<[g EXCEPT !.operator = ""]>>}
        slices  == {<<>>, <<GoodLeaf>>,
                    <<GoodLeaf, FilterLeaf(Sel(<<"Bad name">>), "equals", StringValue("x"))>>,
                    <<GoodLeaf, WhereNode(<<>>, <<>>, <<>>)>>}
    IN  {WhereNode(f, a, o) : f \in filters, a \in slices, o \in slices}

\* where expressions nested up to depth d
RECURSIVE WhereTrees(_)
WhereTrees(d) ==
    IF d <= 1 THEN WhereLevel
    ELSE LET prev == WhereTrees(d - 1)
         IN  prev \cup {WhereNode(<<>>, <<GoodLeaf, n>>, <<>>) : n \in prev}
                  \cup {WhereNode(<<>>, <<>>, <<n>>) : n \in prev}

Queries ==
    {MakeQuery(s, "tableA", <<>>, <<>>, 5) : s \in SelectLists}
    \cup {MakeQuery(<<Sel(<<"id">>), Sel(<<"other_b", "other_c", "name">>)>>, "tableA",
                    <<w>>, <<>>, 5) : w \in WhereChoices \cup LeafChoices}
    \cup {MakeQuery(<<Sel(<<"id">>)>>, "tableA", <<w>>, <<>>, 5) :
            w \in WhereTrees(MaxWhereDepth)}
    \cup {MakeQuery(<<Sel(<<"id">>), Sel(<<"other_b", "id">>)>>, "tableA", <<>>, ob, 5) :
            ob \in {<<OrderBy(Sel(<<"other_b", "id">>), TRUE), OrderBy(Sel(<<"id">>), FALSE)>>,
                    <<OrderBy(Sel(<<"name">>), FALSE)>>,
                    <<OrderBy(Sel(<<"missing">>), FALSE)>>}}
    \cup {MakeQuery(<<Sel(<<"id">>)>>, "tableA", <<GoodLeaf>>,
                    <<OrderBy(Sel(<<"name">>), FALSE)>>, 5),
          MakeQuery(<<Sel(<<"id">>)>>, "tableA",
                    <<FilterLeaf(Sel(<<"other_b", "name">>), "equals", StringValue("x"))>>,
                    <<OrderBy(Sel(<<"other_b", "name">>), TRUE)>>, 5),
          MakeQuery(<<Sel(<<"id">>)>>, "tableA",
                    <<FilterLeaf(Sel(<<"other_b", "other_c", "description">>), "contains",
                                 StringValue("x"))>>, <<>>, 5)}
    \cup {MakeQuery(<<Sel(<<"id">>)>>, "tableA", <<>>, <<>>, l) :
            l \in {0, 1, maxLimit, maxLimit + 1}}
    \cup {MakeQuery(<<Sel(<<"id">>)>>, "Bad name", <<>>, <<>>, 5),
          MakeQuery(<<>>, "tableA", <<>>, <<>>, 5),
          MakeQuery(<<Sel(<<"name", "id">>)>>, "tableA", <<>>, <<>>, 5),
          MakeQuery(<<Sel(<<"id">>)>>, "tableA", <<WhereNode(<<>>, <<>>, <<>>)>>, <<>>, 0),
          MakeQuery(<<Sel(<<"id">>)>>, "tableA",
                    <<FilterLeaf(Sel(<<"id">>), "greater", NilValue)>>, <<>>, 5)}

\* QueryResult and its zero value QueryResult{}
QueryResult(data, limit, total) == [data |-> data, limit |-> limit, total |-> total]

EmptyResult == QueryResult(<<>>, 0, 0)

\* a statement text with its arguments
Statement(sql, args) == [sql |-> sql, args |-> args]

\* QueryDebug{PageSQL, PageArgs, TotalSQL, TotalArgs} and its zero value
QueryDebug(page, total) ==
    [pageSQL |-> Statement(page.sql, page.args), totalSQL |-> Statement(total.sql, total.args)]

EmptyDebug == QueryDebug(Statement(<<>>, <<>>), Statement(<<>>, <<>>))

\* a cell of a result row on the wire, and what rows.Values() decodes it to:
\* nil for a SQL NULL
NullCell == [null |-> TRUE, text |-> <<>>]

TextCell(text) == [null |-> FALSE, text |-> text]

DecodeCell(cell) == IF cell.null THEN None ELSE cell.text

\* what the connection does with the batch of API.Query: BeginTx fails, the
\* scan of the total fails, the page rows fail, the values of a row fail, the
\* row stream ends with an error, or it answers
QueryFaults == {"none", "begin", "total", "rows", "scan", "stream"}

\* page answers: no row, or a row of NULLs followed by a row whose cells name
\* the column they stand in; one cell per field of the page statement
ResultSets(fields) ==
    {<<>>,
     <<[i \in DOMAIN fields |-> NullCell],
       [i \in DOMAIN fields |-> TextCell(fields[i])]>>}

TotalOf(rows) == Len(rows) + 1

\* a row map keyed by the column text of the page statement
RowKey_field(query, fields, i) == fields[i]

\* for i := range rows.FieldDescriptions() { name := query.Select[i].String()
RowKey(query, fields, i) == query.select[i]

\* the loop over rows.FieldDescriptions(): row[name] = xs[i], a later column
\* overwriting an earlier one of the same name
RowMap(query, fields, cells) ==
    LET xs == [i \in DOMAIN cells |-> DecodeCell(cells[i])]
        keys == {RowKey(query, fields, i) : i \in DOMAIN fields}
    IN  [k \in keys |->
            xs[CHOOSE i \in DOMAIN fields :
                  /\ RowKey(query, fields, i) = k
                  /\ \A j \in DOMAIN fields : RowKey(query, fields, j) = k => j <= i]]

\* an error return of API.Query before or after the round trip
FailedCall(q, e, cause, path, debug, trips) ==
    [called |-> TRUE, query |-> q, err |-> e, cause |-> cause, path |-> path,
     result |-> EmptyResult, debug |-> debug, txBegun |-> trips,
     batches |-> trips, txOpen |-> FALSE, rows |-> <<>>]

\* API.Query after convertQuery returned without error: the two statements
\* rendered, total first, then the batch of total and page statement in one
\* read-only transaction and the mapping of the rows
RunQuery(q, out, total, page, fault, rows) ==
    LET debug == QueryDebug(page, total)
    IN  CASE total.err # None ->
               FailedCall(q, "invalid (total) query", total.err, <<>>, EmptyDebug, 0)
          [] total.err = None /\ page.err # None ->
               FailedCall(q, "invalid query", page.err, <<>>, EmptyDebug, 0)
          [] OTHER ->
               CASE fault = "begin" ->
                      FailedCall(q, "failed to begin transaction", fault, <<>>, debug, 0)
                 [] fault = "total" ->
                      FailedCall(q, "failed to get total", fault, <<>>, debug, 1)
                 [] fault = "rows" -> FailedCall(q, "failed to get rows", fault, <<>>, debug, 1)
                 [] fault = "scan" -> FailedCall(q, "failed to scan row", fault, <<>>, debug, 1)
                 [] fault = "stream" -> FailedCall(q, "error in rows", fault, <<>>, debug, 1)
                 [] OTHER ->
                      [called |-> TRUE, query |-> q, err |-> None, cause |-> None,
                       path |-> <<>>,
                       result |-> QueryResult([r \in DOMAIN rows |->
                                                  RowMap(q, out.qPage.columns, rows[r])],
                                              q.limit, TotalOf(rows)),
                       debug |-> debug, txBegun |-> 1, batches |-> 1, txOpen |-> FALSE,
                       rows |-> rows]

\* API.Query: Query.Validate, convertQuery over the catalog that Discover
\* returned, then the round trip; the deferred Close and Commit run on every
\* return after BeginTx
Query(q) ==
    /\ status = "done"
    /\ ~plan.called
    /\ IF ~QueryValidate(q)
       THEN plan' = [called |-> TRUE, query |-> q, order |-> <<>>,
                     validation |-> QueryValidateError(q),
                     out |-> FailedPlan("invalid query")]
       ELSE \E order \in Orders(UsedColumns(cfg, result.tablesMetadata, q)) :
              plan' = [called |-> TRUE, query |-> q, order |-> order,
                       validation |-> QueryValidateError(q),
                       out |-> convertQuery(cfg, result.tablesMetadata, q, order)]
    /\ IF plan'.validation.err # None /\ plan'.out.err # None
       THEN call' = FailedCall(q, "invalid query", plan'.validation.cause,
                               plan'.validation.path, EmptyDebug, 0)
       ELSE IF plan'.out.err # None
       THEN call' = FailedCall(q, "invalid query", plan'.out.cause, <<>>, EmptyDebug, 0)
       ELSE \E total \in {SelectToSql(plan'.out.qTotal)},
               page \in {SelectToSql(plan'.out.qPage)}, fault \in QueryFaults :
              \E rows \in IF fault = "none" THEN ResultSets(plan'.out.qPage.columns)
                          ELSE {<<>>} :
                 call' = RunQuery(q, plan'.out, total, page, fault, rows)
    /\ UNCHANGED <<cfg, db, status, baseTable, known, stack, txOpen, batches, txBegun, result,
                   discoverErr,
                   api, compiled, calls>>

NextQuery ==
    \/ NextDiscover
    \/ \E q \in Queries : Query(q)

SpecQuery == InitSchemas /\ [][NextQuery]_vars
----------------------------------------------------------------------------
(* API.Query statement by statement, several calls over one catalog        *)

\* the queries of the concurrent calls: one with joins and a filter, one that
\* Query.Validate refuses, one that convertQuery refuses, one whose statement
\* does not render
CallQueries ==
    {MakeQuery(<<Sel(<<"id">>), Sel(<<"other_b", "other_c", "name">>)>>, "tableA",
               <<FilterLeaf(Sel(<<"other_b", "id">>), "greater", NumberValue("1"))>>,
               <<>>, 5),
     MakeQuery(<<Sel(<<"id">>)>>, "tableA", <<>>, <<>>, 0),
     MakeQuery(<<Sel(<<"missing">>)>>, "tableA", <<>>, <<>>, 5),
     MakeQuery(<<Sel(<<"id">>)>>, "tableA",
               <<FilterLeaf(Sel(<<"id">>), "greater", NilValue)>>, <<>>, 5)}

\* the return values of API.Query
Returned(res, debug, e, cause) ==
    [result |-> res, debug |-> debug, err |-> e, cause |-> cause]

NoReturn == [err |-> None]

\* the locals of a call after debug := QueryDebug{}
NewCall(q) ==
    [pc |-> "convert", query |-> q, seen |-> EmptyMap, fields |-> <<>>, batch |-> <<>>,
     debug |-> EmptyDebug, events |-> <<>>, open |-> {}, answer |-> <<>>, next |-> 1,
     total |-> 0, data |-> <<>>, ret |-> NoReturn]

\* an error return that hands out what the locals hold
ErrorReturn_partial(c, e, cause) ==
    Returned(QueryResult(c.data, c.query.limit, c.total), c.debug, e, cause)

\* return QueryResult{}, debug, errors.Wrap(err, ...), whatever the locals hold
ErrorReturn(c, e, cause) == Returned(EmptyResult, c.debug, e, cause)

\* return result, debug, nil
SuccessReturn(c) == Returned(QueryResult(c.data, c.query.limit, c.total), c.debug, None, None)

\* deferred calls run first registered first
NextRelease_fifo(open) ==
    IF "tx" \in open THEN "tx" ELSE IF "batch" \in open THEN "batch" ELSE "rows"

\* the deferred calls run last registered first: rows.Close, batchResults.Close,
\* tx.Commit
NextRelease(open) ==
    IF "rows" \in open THEN "rows" ELSE IF "batch" \in open THEN "batch" ELSE "tx"

\* the deferred calls of a returning Query in the order they run
RECURSIVE Releases(_)
Releases(open) ==
    IF open = {} THEN <<>>
    ELSE <<<<"release", NextRelease(open)>>>> \o Releases(open \ {NextRelease(open)})

\* a return statement: its values are fixed, then the deferred calls run
Leave(c, ret) ==
    [c EXCEPT !.ret = ret, !.pc = "returned", !.open = {},
              !.events = c.events \o Releases(c.open)]

\* a planner that stores the flattened columns in the table it was handed
TablesAfterQuery_flattened(c, tables, query) ==
    IF query.from \in DOMAIN tables
    THEN [tables EXCEPT ![query.from].columns = FlattenColumns(tables, query.from)]
    ELSE tables

\* what the calls of Query leave in the catalog they were handed: convertQuery,
\* toSQL, FlattenColumns, ConvertColumnSelector and processJoins assign to
\* their own locals only
TablesAfterQuery(c, tables, query) == tables

\* Query is entered: debug := QueryDebug{} and query.Validate()
StartQuery(p, q) ==
    /\ status = "done"
    /\ calls[p].pc = "idle"
    /\ LET c == NewCall(q)
           v == QueryValidateError(q)
       IN  calls' = [calls EXCEPT ![p] =
                        IF v.err # None
                        THEN Leave(c, ErrorReturn(c, "invalid query", v.cause))
                        ELSE c]
    /\ UNCHANGED <<cfg, db, status, baseTable, known, stack, txOpen, batches, txBegun, result,
                   discoverErr, plan, call, api, compiled>>

\* the locals after convertQuery and the two ToSql calls, total first
Prepared(c, tables, out, total, page) ==
    LET seen == [c EXCEPT !.seen = tables]
    IN  IF out.err # None THEN Leave(seen, ErrorReturn(seen, "invalid query", out.cause))
        ELSE IF total.err # None
        THEN Leave(seen, ErrorReturn(seen, "invalid (total) query", total.err))
        ELSE IF page.err # None
        THEN Leave(seen, ErrorReturn(seen, "invalid query", page.err))
        ELSE [seen EXCEPT !.pc = "begin",
                          !.fields = out.qPage.columns,
                          !.batch = <<Statement(total.sql, total.args),
                                      Statement(page.sql, page.args)>>,
                          !.debug = QueryDebug(page, total)]

\* api.convertQuery(tables, query), qTotal.ToSql(), qPage.ToSql() and the two
\* batch.Queue calls, over the catalog the caller shares with the other calls
QueryConvert(p) ==
    /\ calls[p].pc = "convert"
    /\ LET c == calls[p]
           tables == result.tablesMetadata
       IN  /\ \E order \in Orders(UsedColumns(cfg, tables, c.query)) :
                 \E out \in {convertQuery(cfg, tables, c.query, order)} :
                    calls' = [calls EXCEPT ![p] =
                                 Prepared(c, tables, out,
                                          IF out.err = None THEN SelectToSql(out.qTotal)
                                          ELSE NoStatement(out.err),
                                          IF out.err = None THEN SelectToSql(out.qPage)
                                          ELSE NoStatement(out.err))]
           /\ result' = [result EXCEPT
                            !.tablesMetadata = TablesAfterQuery(cfg, tables, c.query)]
    /\ UNCHANGED <<cfg, db, status, baseTable, known, stack, txOpen, batches, txBegun,
                   discoverErr, plan, call, api, compiled>>

\* db.BeginTx(ctx, pgx.TxOptions{AccessMode: pgx.ReadOnly}); defer tx.Commit(ctx)
QueryBeginTx(p) ==
    /\ calls[p].pc = "begin"
    /\ LET c == calls[p]
       IN  \E ok \in BOOLEAN :
              calls' = [calls EXCEPT ![p] =
                           IF ok
                           THEN [c EXCEPT !.pc = "send",
                                          !.events = Append(c.events, <<"begin", "read only">>),
                                          !.open = c.open \cup {"tx"}]
                           ELSE Leave(c, ErrorReturn(c, "failed to begin transaction",
                                                     "begin"))]
    /\ UNCHANGED <<cfg, db, status, baseTable, known, stack, txOpen, batches, txBegun, result,
                   discoverErr, plan, call, api, compiled>>

\* batchResults := tx.SendBatch(ctx, batch); defer batchResults.Close(); the
\* connection answers the page statement with some rows
QuerySendBatch(p) ==
    /\ calls[p].pc = "send"
    /\ LET c == calls[p]
       IN  \E rows \in ResultSets(c.fields) :
              calls' = [calls EXCEPT ![p] =
                           [c EXCEPT !.pc = "total",
                                     !.events = Append(c.events, <<"send", c.batch>>),
                                     !.open = c.open \cup {"batch"},
                                     !.answer = rows]]
    /\ UNCHANGED <<cfg, db, status, baseTable, known, stack, txOpen, batches, txBegun, result,
                   discoverErr, plan, call, api, compiled>>

\* batchResults.QueryRow().Scan(&total)
QueryTotal(p) ==
    /\ calls[p].pc = "total"
    /\ LET c == calls[p]
       IN  \E ok \in BOOLEAN :
              calls' = [calls EXCEPT ![p] =
                           IF ok
                           THEN [c EXCEPT !.pc = "rows",
                                          !.events = Append(c.events, <<"total", "read">>),
                                          !.total = TotalOf(c.answer)]
                           ELSE Leave([c EXCEPT !.events =
                                                    Append(c.events, <<"total", "failed">>)],
                                      ErrorReturn(c, "failed to get total", "total"))]
    /\ UNCHANGED <<cfg, db, status, baseTable, known, stack, txOpen, batches, txBegun, result,
                   discoverErr, plan, call, api, compiled>>

\* rows, err := batchResults.Query(); defer rows.Close()
QueryRows(p) ==
    /\ calls[p].pc = "rows"
    /\ LET c == calls[p]
       IN  \E ok \in BOOLEAN :
              calls' = [calls EXCEPT ![p] =
                           IF ok
                           THEN [c EXCEPT !.pc = "next",
                                          !.events = Append(c.events, <<"rows", "opened">>),
                                          !.open = c.open \cup {"rows"}]
                           ELSE Leave([c EXCEPT !.events =
                                                    Append(c.events, <<"rows", "failed">>)],
                                      ErrorReturn(c, "failed to get rows", "rows"))]
    /\ UNCHANGED <<cfg, db, status, baseTable, known, stack, txOpen, batches, txBegun, result,
                   discoverErr, plan, call, api, compiled>>

\* one turn of for rows.Next(): the next row decoded and appended, rows.Values
\* failing, or the stream ending, with rows.Err() set or not
QueryNext(p) ==
    /\ calls[p].pc = "next"
    /\ LET c == calls[p]
       IN  \E outcome \in IF c.next <= Len(c.answer) THEN {"row", "scan", "stream"}
                          ELSE {"end", "stream"} :
              calls' = [calls EXCEPT ![p] =
                           CASE outcome = "row" ->
                                  [c EXCEPT !.next = c.next + 1,
                                            !.events = Append(c.events, <<"row", c.next>>),
                                            !.data = Append(c.data,
                                                            RowMap(c.query, c.fields,
                                                                   c.answer[c.next]))]
                             [] outcome = "scan" ->
                                  Leave(c, ErrorReturn(c, "failed to scan row", "scan"))
                             [] outcome = "stream" ->
                                  Leave(c, ErrorReturn(c, "error in rows", "stream"))
                             [] OTHER -> Leave(c, SuccessReturn(c))]
    /\ UNCHANGED <<cfg, db, status, baseTable, known, stack, txOpen, batches, txBegun, result,
                   discoverErr, plan, call, api, compiled>>

InitCalls ==
    /\ cfg = MakeConfig(TestTextDefault)
    /\ db = MakeDB("plain", FALSE, TRUE, TRUE, NilComment)
    /\ ConfigValidate(cfg)
    /\ InitCommon

NextCalls ==
    \/ NextDiscover
    \/ \E p \in CallIds, q \in CallQueries : StartQuery(p, q)
    \/ \E p \in CallIds : QueryConvert(p)
    \/ \E p \in CallIds : QueryBeginTx(p)
    \/ \E p \in CallIds : QuerySendBatch(p)
    \/ \E p \in CallIds : QueryTotal(p)
    \/ \E p \in CallIds : QueryRows(p)
    \/ \E p \in CallIds : QueryNext(p)

SpecCalls == InitCalls /\ [][NextCalls]_vars



----------------------------------------------------------------------------
(* NewAPI                                                                  *)

\* a registry without data types
EmptyRegistry == [dt \in {} |-> {}]

\* the registries NewAPI is called with: none, the default one, one whose
\* text type has no operators, one for integers only
Registries ==
    {EmptyRegistry, DefaultFilterOperations, [dt \in {"text"} |-> {}],
     [dt \in {"integer"} |-> numberOps]}

\* the columnDefaults NewAPI is called with, one data type each or none
ColumnDefaultsChoices ==
    {[dt \in {} |-> ZeroBehavior]}
    \cup {[dt \in {"text"} |-> b] :
            b \in {TestTextDefault,
                   ColumnBehavior(None, FALSE, TRUE, FALSE, <<>>),
                   ColumnBehavior(None, FALSE, FALSE, FALSE, <<>>),
                   ColumnBehavior(None, FALSE, FALSE, FALSE, <<"equals", "greater">>)}}
    \cup {[dt \in {"uuid"} |-> ColumnBehavior(None, FALSE, TRUE, FALSE, <<"greater">>)],
          [dt \in {"json"} |-> ColumnBehavior(None, FALSE, TRUE, FALSE, <<>>)],
          [dt \in {"json"} |-> ColumnBehavior(None, TRUE, FALSE, FALSE, <<>>)]}

\* the Configs NewAPI is called with
Configs ==
    {[Schema |-> s, DefaultLimit |-> l, FilterOperations |-> r, ColumnDefaults |-> d] :
        s \in {"", defaultSchema, "other"},
        l \in {0, 1, maxLimit, maxLimit + 1},
        r \in Registries,
        d \in ColumnDefaultsChoices}

\* nothing was built yet
InitNewAPI ==
    /\ cfg = ZeroConfig
    /\ db = MakeDB("plain", FALSE, TRUE, TRUE, NilComment)
    /\ api = NoAPI
    /\ InitState

\* pgd.NewAPI(c)
Construct(c) ==
    /\ ~api.built
    /\ \E r \in NewAPI(c) :
          /\ api' = r
          /\ cfg' = r.c
    /\ UNCHANGED <<db, status, baseTable, known, stack, txOpen, batches, txBegun, result,
                   discoverErr, plan, call, compiled, calls>>

NextNewAPI == \E c \in Configs : Construct(c)

SpecNewAPI == InitNewAPI /\ [][NextNewAPI]_vars

----------------------------------------------------------------------------
(* The predicate compilers of the registry                                 *)

ListValue(items) == [kind |-> "list", text |-> "", items |-> items]

\* the data types and operator names a compiler is looked up with: those of
\* the default registry, a type that is not registered and an unknown name
CompileDataTypes == DOMAIN DefaultFilterOperations \cup {"json"}

CompileOperators == Range(FilterOperatorOrder) \cup {"like"}

\* filter values: nil, strings, numbers, slices
CompileValues ==
    {NilValue, EmptyString, StringValue("x"), ZeroValue, NumberValue("1"),
     ListValue(<<>>), ListValue(<<StringValue("x"), StringValue("y")>>)}

\* an API over the default registry, no compiler applied yet
InitPredicates ==
    /\ cfg = MakeConfig(TestTextDefault)
    /\ db = MakeDB("plain", FALSE, TRUE, TRUE, NilComment)
    /\ InitCommon

\* the filter branch of toSQL for a column of data type dt: the lookup
\* filterOps[dt][operator], op(cb.StringQuoted(), f.Value), and the ToSql of
\* the expression when the statement is rendered
Compile(dt, operator, column, value) ==
    /\ ~compiled.done
    /\ compiled' =
          IF ~Registered(cfg.FilterOperations, dt, operator)
          THEN [done |-> TRUE, dt |-> dt, operator |-> operator, column |-> column,
                value |-> value, registered |-> FALSE,
                err |-> "unsupported filter operation", expr |-> NoSqlizer,
                sql |-> ToSql(NoSqlizer)]
          ELSE LET x == CompilePredicate(dt, operator, column, value)
               IN  [done |-> TRUE, dt |-> dt, operator |-> operator, column |-> column,
                    value |-> value, registered |-> TRUE, err |-> x.err,
                    expr |-> IF x.err = None THEN x.pred.expr ELSE NoSqlizer,
                    sql |-> ToSql(IF x.err = None THEN x.pred.expr ELSE NoSqlizer)]
    /\ UNCHANGED <<cfg, db, status, baseTable, known, stack, txOpen, batches, txBegun, result,
                   discoverErr, plan, call, api, calls>>

NextPredicates ==
    \E dt \in CompileDataTypes, operator \in CompileOperators, value \in CompileValues :
        Compile(dt, operator, StringQuoted(<<"tableA", Dot, "name">>), value)

SpecPredicates == InitPredicates /\ [][NextPredicates]_vars

----------------------------------------------------------------------------
(* Discovery: closure, recursion, validation                               *)

AllColumns(ts) == {<<t, c>> : t \in DOMAIN ts, c \in UNION {DOMAIN ts[u].columns : u \in DOMAIN ts}}

ColumnsOf(ts) == {p \in AllColumns(ts) : p[2] \in DOMAIN ts[p[1]].columns}

Finished == status \in {"done", "error", "overflow", "recursion_overflow"}

\* discoverWithRelations has returned to Discover
RecursionReturned == Finished \/ (status = "discovering" /\ stack = <<>>)

\* C4: after a successful Discover(t) the keys of tablesMetadata are exactly the
\* tables reachable from t over foreign keys (t included)
C4_DiscoverClosure ==
    status = "done" => DOMAIN result.tablesMetadata = ReachableFrom(db, {baseTable})

\* C4 witness: a successful discovery from tableB, which leaves tableA out
C4_Witness ==
    /\ status = "done"
    /\ baseTable = "tableB"
    /\ DOMAIN result.tablesMetadata = {"tableB", "tableC"}

\* the resource discipline of the recursion: at most one transaction open, no
\* table batched or begun twice, and once the recursion has returned without
\* error exactly one batch and one ended transaction per reachable table
C5_Resources ==
    /\ Cardinality(txOpen) <= 1
    /\ \A t \in DOMAIN batches : batches[t] <= 1 /\ txBegun[t] <= 1 /\ batches[t] <= txBegun[t]
    /\ status \in {"done", "overflow"} \/ (status = "discovering" /\ stack = <<>>)
         => /\ txOpen = {}
            /\ \A t \in DOMAIN batches :
                  /\ batches[t] = (IF t \in ReachableFrom(db, {baseTable}) THEN 1 ELSE 0)
                  /\ txBegun[t] = batches[t]
    /\ status # "recursion_overflow"

\* C5: on every foreign-key graph (self reference and cycles included) the
\* recursion of discoverWithRelations returns, having run the catalog batch
\* once per reachable table in one transaction each, never two open at once
C5_RecursionTerminates ==
    /\ []C5_Resources
    /\ (status = "discovering") ~> RecursionReturned

\* C5 witness: the recursion returned on the cyclic schema tableA -> tableB ->
\* tableC -> tableA with every table batched once
C5_Witness ==
    /\ status = "discovering"
    /\ stack = <<>>
    /\ \E r \in db["tableC"].fks : r.ftable = "tableA"
    /\ \A t \in {"tableA", "tableB", "tableC"} : batches[t] = 1

\* C6: FlattenColumns returns on every catalog that passes Validate, cyclic
\* ones included (it never exhausts the stack)
C6_FlattenTerminates == status # "overflow"

\* the conditions C7 lists, on a catalog
C7_Consistent(ts) ==
    \A tk \in DOMAIN ts :
        /\ ts[tk].name = tk
        /\ DOMAIN ts[tk].columns # {}
        /\ \A ck \in DOMAIN ts[tk].columns :
              LET c == ts[tk].columns[ck]
              IN  /\ c.name = ck
                  /\ c.relation # NoRelation =>
                        /\ c.relation.table \in DOMAIN ts
                        /\ c.relation.column \in DOMAIN ts[c.relation.table].columns
                        /\ ts[c.relation.table].columns[c.relation.column].dataType = c.dataType

\* C7: a catalog returned by Discover satisfies the conditions of validate();
\* when the discovered tables violate one, Discover returns an error and no catalog
C7_ValidatedCatalog ==
    /\ status = "done" => result.tablesMetadata = known /\ C7_Consistent(result.tablesMetadata)
    /\ (RecursionReturned /\ Finished /\ ~C7_Consistent(known))
         => status = "error" /\ result = NoResult

\* C7 witness: discovery of a schema whose relation column is a bigint that
\* references an integer ended with an error
C7_Witness ==
    /\ status = "error"
    /\ DOMAIN known = {"tableA", "tableB", "tableC"}
    /\ known["tableA"].columns["other_b"].dataType = "bigint"
    /\ ~C7_Consistent(known)

----------------------------------------------------------------------------
(* Behavior merging                                                        *)

\* the column rows of the catalog that carry a JSON object as comment
CommentedColumns ==
    {p \in {<<t, i>> : t \in DOMAIN db, i \in 1..5} :
        /\ p[2] \in DOMAIN db[p[1]].columns
        /\ db[p[1]].columns[p[2]].comment.kind = "object"}

\* the column rows of the catalog without a comment
UncommentedColumns ==
    {p \in {<<t, i>> : t \in DOMAIN db, i \in 1..5} :
        /\ p[2] \in DOMAIN db[p[1]].columns
        /\ db[p[1]].columns[p[2]].comment.kind \in {"nil", "empty"}}

\* the behavior Discover returned for a column row, and the default of its type
BehaviorOfRow(p) == result.tablesMetadata[p[1]].columns[db[p[1]].columns[p[2]].name].behavior

DefaultOfRow(p) == cfg.ColumnDefaults[db[p[1]].columns[p[2]].dataType]

Discovered(p) == status = "done" /\ p[1] \in DOMAIN result.tablesMetadata

IsSortedSet(ops) == \A i, j \in DOMAIN ops : i < j => StringLess(ops[i], ops[j])

\* C8: in a catalog returned by Discover, allowFiltering = false implies that
\* filterOperations is empty, for columns with and without a comment
C8_NoFilteringNoOperations ==
    \A p \in CommentedColumns \cup UncommentedColumns :
        Discovered(p) /\ ~BehaviorOfRow(p).allowFiltering
            => BehaviorOfRow(p).filterOperations = <<>>

\* C9: each merge-controlled field is the comment's when its key is present in
\* the comment (also for false and for an empty list) and the default's when
\* absent; filterOperations is that list, joined by the defaults unless they
\* are omitted, and cleared when filtering is not allowed
C9_MergeByPresence ==
    \A p \in CommentedColumns :
        Discovered(p) =>
            LET obj == db[p[1]].columns[p[2]].comment.obj
                d   == DefaultOfRow(p)
                b   == BehaviorOfRow(p)
                own == IF "filterOperations" \in obj.keys
                       THEN obj.val.filterOperations ELSE d.filterOperations
            IN  /\ b.allowSorting = (IF "allowSorting" \in obj.keys
                                     THEN obj.val.allowSorting ELSE d.allowSorting)
                /\ b.allowFiltering = (IF "allowFiltering" \in obj.keys
                                       THEN obj.val.allowFiltering ELSE d.allowFiltering)
                /\ b.omitDefaultFilterOperations =
                      (IF "omitDefaultFilterOperations" \in obj.keys
                       THEN obj.val.omitDefaultFilterOperations
                       ELSE d.omitDefaultFilterOperations)
                /\ b.allowFiltering =>
                      Range(b.filterOperations) =
                          Range(own) \cup (IF b.omitDefaultFilterOperations
                                           THEN {} ELSE Range(d.filterOperations))

\* C9 witness: a discovered column whose comment sets allowFiltering to true,
\* allowSorting to false and filterOperations to the empty list over a default
\* that says the opposite, and leaves omitDefaultFilterOperations to the default
C9_Witness ==
    \E p \in CommentedColumns :
        /\ Discovered(p)
        /\ LET obj == db[p[1]].columns[p[2]].comment.obj
               d   == DefaultOfRow(p)
           IN  /\ obj.keys = {"allowSorting", "allowFiltering", "filterOperations"}
               /\ ~obj.val.allowSorting /\ d.allowSorting
               /\ obj.val.allowFiltering /\ ~d.allowFiltering
               /\ obj.val.filterOperations = <<>> /\ d.filterOperations # <<>>
               /\ d.omitDefaultFilterOperations
               /\ BehaviorOfRow(p).filterOperations = <<>>

\* C10: a discovered column with omitDefaultFilterOperations = false and
\* allowFiltering = true lists every operator of its default, sorted and
\* without duplicates, also when it has no comment
C10_DefaultsIncludedSorted ==
    \A p \in CommentedColumns \cup UncommentedColumns :
        (/\ Discovered(p)
         /\ ~BehaviorOfRow(p).omitDefaultFilterOperations
         /\ BehaviorOfRow(p).allowFiltering)
            => /\ Range(DefaultOfRow(p).filterOperations)
                    \subseteq Range(BehaviorOfRow(p).filterOperations)
               /\ IsSortedSet(BehaviorOfRow(p).filterOperations)

\* the data type of a column row
DataTypeOfRow(p) == db[p[1]].columns[p[2]].dataType

\* C11: every operator name in the filterOperations of a discovered column is
\* registered in the configured registry under the data type of the column,
\* also when the name comes from the comment of the column
C11_RegisteredOperations ==
    \A p \in CommentedColumns \cup UncommentedColumns :
        Discovered(p) =>
            \A i \in DOMAIN BehaviorOfRow(p).filterOperations :
                /\ DataTypeOfRow(p) \in DOMAIN cfg.FilterOperations
                /\ BehaviorOfRow(p).filterOperations[i]
                       \in cfg.FilterOperations[DataTypeOfRow(p)]

\* the operators registered for a data type, as a sorted list
SortedRegistered(dt) ==
    SelectSeq(FilterOperatorOrder, LAMBDA op : op \in cfg.FilterOperations[dt])

\* C12: a column without comment whose default allows filtering and lists no
\* operators is discovered with the sorted list of all operators registered
\* for its data type
C12_DefaultAllRegistered ==
    \A p \in UncommentedColumns :
        (/\ Discovered(p)
         /\ db[p[1]].columns[p[2]].comment.kind = "nil"
         /\ DefaultOfRow(p).allowFiltering
         /\ DefaultOfRow(p).filterOperations = <<>>)
            => BehaviorOfRow(p).filterOperations = SortedRegistered(DataTypeOfRow(p))

\* the column rows of the foreign-key closure of the base table
ClosureRows ==
    {p \in {<<t, i>> : t \in ReachableFrom(db, {baseTable}) \cap DOMAIN db, i \in 1..5} :
        p[2] \in DOMAIN db[p[1]].columns}

\* some column of the closure has a data type without column default
MissingDefault ==
    \E p \in ClosureRows : DataTypeOfRow(p) \notin DOMAIN cfg.ColumnDefaults

\* the closure holds something else that discoverSingle fails on
OtherDiscoveryFailure ==
    \/ \E t \in ReachableFrom(db, {baseTable}) :
          \/ t \notin DOMAIN db
          \/ db[t].comment.kind = "malformed"
          \/ \E r \in db[t].fks : \A i \in DOMAIN db[t].columns : db[t].columns[i].name # r.column
    \/ \E p \in ClosureRows :
          /\ DataTypeOfRow(p) \in DOMAIN cfg.ColumnDefaults
          /\ db[p[1]].columns[p[2]].comment.kind = "malformed"

----------------------------------------------------------------------------
(* Query planning: joins                                                   *)

Planned == plan.called /\ plan.out.err = None

\* some relation column on the path of the full selector `from` is nullable
NullableOnPath(from) ==
    LET b == Breakdown(from)
    IN  \E i \in DOMAIN b.tables :
            result.tablesMetadata[b.tables[i]].columns[b.columns[i]].isNullable

\* C1: in every plan, whatever the iteration order of processJoins, a join is
\* LEFT iff some relation column on the path from the base table up to and
\* including its source column is nullable, and INNER iff none is
C1_JoinNullability ==
    Planned =>
        \A k \in DOMAIN plan.out.joins :
            /\ plan.out.joins[k].useLeftJoin = NullableOnPath(plan.out.joins[k].from)
            /\ (plan.out.qPage.joins[k].kind = "LEFT JOIN")
                   = NullableOnPath(plan.out.joins[k].from)

\* C2: the total and the page query of an accepted query share FROM, the joins
\* with their flags and ON conditions, and the WHERE predicate with its bind
\* values; the total selects count(*) only, without ORDER BY, LIMIT, OFFSET
C2_TotalPagePairing ==
    Planned =>
        /\ plan.out.qTotal.from = plan.out.qPage.from
        /\ plan.out.qTotal.joins = plan.out.qPage.joins
        /\ plan.out.qTotal.where = plan.out.qPage.where
        /\ plan.out.qTotal.columns = << <<"count(*)">> >>
        /\ plan.out.qTotal.orderBy = <<>>
        /\ plan.out.qTotal.limit = <<>>
        /\ plan.out.qTotal.offset = <<>>
        /\ Len(plan.out.qPage.joins) = Len(plan.out.joins)
        /\ plan.out.qPage.limit = <<plan.query.limit>>

\* C2 witness: an accepted query with a where-expression over related columns,
\* a LEFT and an INNER join
C2_Witness ==
    /\ Planned
    /\ plan.out.qPage.where # <<>>
    /\ \E k, l \in DOMAIN plan.out.qTotal.joins :
          /\ plan.out.qTotal.joins[k].kind = "LEFT JOIN"
          /\ plan.out.qTotal.joins[l].kind = "JOIN"

\* C2 witness of the ORDER BY side: an accepted query that sorts
C2_WitnessOrderBy == Planned /\ Len(plan.out.qPage.orderBy) = 2

\* the alias and the ON condition in the text of a join clause
AliasOf(expr) ==
    LET rest == SubSeq(expr, 6, Len(expr))
        n    == CHOOSE i \in DOMAIN rest :
                    rest[i] = Quote /\ \A j \in 1..(i - 1) : rest[j] # Quote
    IN  SubSeq(rest, 1, n - 1)

OnOf(expr) ==
    LET n == CHOOSE i \in DOMAIN expr : expr[i] = " ON "
    IN  SubSeq(expr, n + 1, Len(expr))

\* the relation-path prefixes t1.c1. ... .t(i+1) of a full selector
PathPrefixes(full) == {SubSeq(full, 1, 4 * i + 1) : i \in 1..(Len(Breakdown(full).tables) - 1)}

\* C3: the alias of a join is the dotted prefix of its target (the source
\* selector, a dot, the target table); no alias occurs twice; every relation
\* path prefix of a used selector has exactly one join; joins of different
\* paths to the same table differ in alias and in ON condition
C3_AliasByPath ==
    Planned =>
        LET js == plan.out.qPage.joins
        IN  /\ \A k \in DOMAIN js :
                  /\ AliasOf(js[k].expr) =
                        plan.out.joins[k].from \o <<Dot, GetLastTable(plan.out.joins[k].to)>>
                  /\ js[k].expr[2] = GetLastTable(plan.out.joins[k].to)
            /\ \A k, l \in DOMAIN js : k # l => AliasOf(js[k].expr) # AliasOf(js[l].expr)
            /\ \A c \in plan.out.columnsUsed : \A pre \in PathPrefixes(c) :
                  Cardinality({k \in DOMAIN js : AliasOf(js[k].expr) = pre}) = 1
            /\ \A k, l \in DOMAIN js :
                  k # l /\ js[k].expr[2] = js[l].expr[2] => OnOf(js[k].expr) # OnOf(js[l].expr)
            /\ Cardinality({AliasOf(js[k].expr) : k \in DOMAIN js})
                  = Cardinality(UNION {PathPrefixes(c) : c \in plan.out.columnsUsed})

\* C3 witness: other_b and other_b2 both reach tableB and on to tableC: four
\* joins, two per table
C3_Witness ==
    /\ Planned
    /\ Len(plan.out.qPage.joins) = 4
    /\ Cardinality({k \in DOMAIN plan.out.qPage.joins :
                        plan.out.qPage.joins[k].expr[2] = "tableC"}) = 2
    /\ Cardinality({k \in DOMAIN plan.out.qPage.joins :
                        plan.out.qPage.joins[k].expr[2] = "tableB"}) = 2

----------------------------------------------------------------------------
(* Query: validation, limits, order by                                     *)

Called == call.called

\* exactly one of filter, and, or is set at every node, and every filter has a
\* valid column selector and an operator
RECURSIVE C19_WellFormed(_)
C19_WellFormed(e) ==
    /\ Cardinality({k \in {"filter", "and", "or"} :
                       \/ k = "filter" /\ e.filter # <<>>
                       \/ k = "and" /\ e.and # <<>>
                       \/ k = "or" /\ e.or # <<>>}) = 1
    /\ e.filter # <<>> =>
          /\ e.filter[1].operator # ""
          /\ LET xs == Split(e.filter[1].column)
             IN  xs # <<>> /\ \A i \in DOMAIN xs : xs[i] \in ValidIdentifiers
    /\ \A i \in DOMAIN e.and : C19_WellFormed(e.and[i])
    /\ \A i \in DOMAIN e.or : C19_WellFormed(e.or[i])

\* C14: a query with an empty select, an invalid from, a limit below 1, a
\* malformed where expression, or one that convertQuery fails on, returns the
\* invalid-query error with the zero result and the zero QueryDebug, and no
\* transaction was begun and no batch sent
C14_InvalidNoRoundTrip ==
    (/\ Called
     /\ \/ call.query.select = <<>>
        \/ call.query.from \notin ValidIdentifiers
        \/ call.query.limit < 1
        \/ call.query.where # <<>> /\ ~C19_WellFormed(call.query.where[1])
        \/ plan.out.err # None)
        => /\ call.err = "invalid query"
           /\ call.result = EmptyResult
           /\ call.debug = EmptyDebug
           /\ call.txBegun = 0
           /\ call.batches = 0

\* C14 witness: a query that passes Query.Validate and that convertQuery
\* rejects, returned without a round trip
C14_Witness ==
    /\ Called
    /\ plan.validation.err = None
    /\ plan.out.err # None
    /\ call.err = "invalid query"
    /\ call.txBegun = 0

\* C15: for an accepted query the LIMIT of the page statement and the limit of
\* the result lie between 1 and maxLimit
C15_LimitBounded ==
    (Called /\ plan.out.err = None)
        => /\ Len(plan.out.qPage.limit) = 1
           /\ plan.out.qPage.limit[1] >= 1
           /\ plan.out.qPage.limit[1] <= maxLimit
           /\ call.err = None =>
                 call.result.limit >= 1 /\ call.result.limit <= maxLimit

\* C16: a validated query with an order-by selector that does not resolve or
\* that is not listed in select is rejected by convertQuery
C16_OrderBySelected ==
    (/\ plan.called
     /\ plan.validation.err = None
     /\ \E i \in DOMAIN plan.query.orderBy :
           \/ ConvertColumnSelector(result.tablesMetadata, plan.query.from,
                                    plan.query.orderBy[i].column).err # None
           \/ plan.query.orderBy[i].column \notin Range(plan.query.select))
        => plan.out.err # None

----------------------------------------------------------------------------
(* Query: filters                                                          *)

UnsupportedOperation == "unsupported filter operation"

\* the where expression of the planned query is a single filter, and
\* convertQuery got as far as compiling it
SingleFilter ==
    /\ plan.called
    /\ plan.validation.err = None
    /\ \A i \in DOMAIN plan.query.select :
          ConvertColumnSelector(result.tablesMetadata, plan.query.from,
                                plan.query.select[i]).err = None
    /\ plan.query.where # <<>>
    /\ plan.query.where[1].filter # <<>>

TheFilter == plan.query.where[1].filter[1]

\* the resolution of the filter's selector over the catalog
FilterResolution ==
    ConvertColumnSelector(result.tablesMetadata, plan.query.from, TheFilter.column)

\* the metadata of the column the filter's selector resolves to: the last
\* column of the relation chain
FilterTarget ==
    LET bd == Breakdown(FilterResolution.full)
    IN  result.tablesMetadata[bd.tables[Len(bd.tables)]].columns[bd.columns[Len(bd.columns)]]

\* C17: a filter whose selector resolves fails with "unsupported filter
\* operation" exactly when its operator has no entry in the registry under the
\* data type of the column the selector resolves to, whatever the column's
\* allowFiltering and filterOperations are
C17_UnsupportedOperation ==
    (SingleFilter /\ FilterResolution.err = None)
        => ((plan.out.err # None /\ plan.out.cause = UnsupportedOperation)
               <=> ~(/\ FilterTarget.dataType \in DOMAIN cfg.FilterOperations
                     /\ TheFilter.operator \in cfg.FilterOperations[FilterTarget.dataType]))

\* C17 witness: "greater" was compiled for the integer column tableA.id, which
\* does not allow filtering and lists no operators
C17_Witness ==
    /\ SingleFilter
    /\ FilterResolution.err = None
    /\ plan.out.err = None
    /\ TheFilter.operator = "greater"
    /\ ~FilterTarget.behavior.allowFiltering
    /\ FilterTarget.behavior.filterOperations = <<>>

\* C18: a filter whose selector does not resolve makes the query fail with an
\* error about the missing column or relation, not with "unsupported filter
\* operation"
C18_UnresolvedSelectorError ==
    (SingleFilter /\ FilterResolution.err # None)
        => /\ plan.out.err # None
           /\ plan.out.cause # UnsupportedOperation
           /\ plan.out.cause = FilterResolution.err

\* the where expression of the validated query, when Query.Validate got to it
WhereChecked ==
    /\ plan.called
    /\ plan.query.select # <<>>
    /\ plan.query.from \in ValidIdentifiers
    /\ plan.query.where # <<>>

RECURSIVE PathExists(_, _)
PathExists(e, path) ==
    \/ path = <<>>
    \/ /\ path[1].op \in {"and", "or"}
       /\ LET items == IF path[1].op = "and" THEN e.and ELSE e.or
          IN  /\ path[1].idx + 1 \in DOMAIN items
              /\ PathExists(items[path[1].idx + 1], Tail(path))

RECURSIVE NodeAt(_, _)
NodeAt(e, path) ==
    IF path = <<>> THEN e
    ELSE NodeAt((IF path[1].op = "and" THEN e.and ELSE e.or)[path[1].idx + 1], Tail(path))

SetCount(e) ==
    Cardinality({k \in {"filter", "and", "or"} :
                    \/ k = "filter" /\ e.filter # <<>>
                    \/ k = "and" /\ e.and # <<>>
                    \/ k = "or" /\ e.or # <<>>})

RECURSIVE FiltersValid(_)
FiltersValid(e) ==
    /\ e.filter # <<>> =>
          /\ e.filter[1].operator # ""
          /\ LET xs == Split(e.filter[1].column)
             IN  xs # <<>> /\ \A i \in DOMAIN xs : xs[i] \in ValidIdentifiers
    /\ \A i \in DOMAIN e.and : FiltersValid(e.and[i])
    /\ \A i \in DOMAIN e.or : FiltersValid(e.or[i])

\* C19: WhereExpression.Validate succeeds iff every node sets exactly one of
\* filter, and, or, and every filter has a valid column selector and an
\* operator; the error for a node with none or with several carries the
\* dotted path of such a node, and it is the error whenever all filters are valid
C19_WhereValidate ==
    WhereChecked =>
        LET w == plan.query.where[1]
            v == plan.validation
            rejected == v.err = "invalid filter expression"
        IN  /\ ~rejected <=> C19_WellFormed(w)
            /\ (rejected /\ v.cause = "missing expression")
                  => PathExists(w, v.path) /\ SetCount(NodeAt(w, v.path)) = 0
            /\ (rejected /\ v.cause = "multiple expressions")
                  => PathExists(w, v.path) /\ SetCount(NodeAt(w, v.path)) > 1
            /\ (rejected /\ FiltersValid(w))
                  => v.cause \in {"missing expression", "multiple expressions"}

\* C19 witness: the node with nothing set at .and[1].and[1] was reported
C19_Witness ==
    /\ WhereChecked
    /\ plan.validation.cause = "missing expression"
    /\ plan.validation.path = <<[op |-> "and", idx |-> 1], [op |-> "and", idx |-> 1]>>

----------------------------------------------------------------------------
(* Query: result rows                                                      *)

\* C20: every row of the result maps the i-th selector of select, as the
\* caller wrote it, to the value of the i-th column of the row, NULL being
\* nil, and the SELECT list of the page statement holds the quoted full
\* selectors in the order of select
C20_RowMapping ==
    (Called /\ call.err = None) =>
        LET q == call.query
        IN  /\ Len(plan.out.qPage.columns) = Len(q.select)
            /\ \A i \in DOMAIN q.select :
                  plan.out.qPage.columns[i] =
                     StringQuoted(ConvertColumnSelector(result.tablesMetadata, q.from,
                                                        q.select[i]).full)
            /\ Len(call.result.data) = Len(call.rows)
            /\ \A r \in DOMAIN call.rows :
                  /\ DOMAIN call.result.data[r] = Range(q.select)
                  /\ \A i \in DOMAIN q.select :
                        call.result.data[r][q.select[i]] =
                           (IF call.rows[r][i].null THEN None ELSE call.rows[r][i].text)

\* C20 witness: two rows over a select of a base column and a column two
\* relations away, the first row all NULL
C20_Witness ==
    /\ Called
    /\ call.err = None
    /\ call.query.select = <<Sel(<<"id">>), Sel(<<"other_b", "other_c", "name">>)>>
    /\ Len(call.result.data) = 2
    /\ call.result.data[1][Sel(<<"other_b", "other_c", "name">>)] = None
    /\ call.result.data[2][Sel(<<"other_b", "other_c", "name">>)] # None

----------------------------------------------------------------------------
(* NewAPI                                                                  *)

\* the conditions under which a Config, its unset fields filled in, is refused
C23_Refused(c) ==
    \/ c.DefaultLimit > 1000
    \/ DOMAIN c.FilterOperations = {}
    \/ \E dt \in DOMAIN c.ColumnDefaults :
          LET b == c.ColumnDefaults[dt]
              registered == IF dt \in DOMAIN c.FilterOperations
                            THEN c.FilterOperations[dt] ELSE {}
          IN  \/ \E i \in DOMAIN b.filterOperations : b.filterOperations[i] \notin registered
              \/ b.allowFiltering /\ b.filterOperations = <<>> /\ registered = {}

\* C23: NewAPI replaces an empty schema by 'public' and a zero defaultLimit by
\* 200; it then returns an error and no handle iff defaultLimit > 1000, the
\* registry is empty, a columnDefaults entry lists an operator that is not
\* registered under its data type, or an entry allows filtering with no listed
\* and no registered operators; otherwise it returns a handle over the filled-in
\* Config and no error.
C23_NewAPIValidation ==
    api.built =>
        LET c == api.input
            filled == [c EXCEPT !.Schema = IF c.Schema = "" THEN "public" ELSE c.Schema,
                                !.DefaultLimit = IF c.DefaultLimit = 0 THEN 200
                                                 ELSE c.DefaultLimit]
        IN  /\ (api.err # None) <=> C23_Refused(filled)
            /\ api.handle <=> api.err = None
            /\ api.handle => api.c = filled /\ cfg = filled

\* a Config with column defaults and neither schema nor defaultLimit set was
\* accepted
C23_Witness ==
    /\ api.built
    /\ api.handle
    /\ api.input.Schema = ""
    /\ api.input.DefaultLimit = 0
    /\ api.c.Schema = "public"
    /\ api.c.DefaultLimit = 200
    /\ DOMAIN api.input.ColumnDefaults # {}

----------------------------------------------------------------------------
(* The predicate compilers under SQL's three-valued logic                  *)

\* NOT, AND and OR over TRUE, FALSE and UNKNOWN
Not3(a) == CASE a = "TRUE" -> "FALSE" [] a = "FALSE" -> "TRUE" [] OTHER -> "UNKNOWN"

RECURSIVE And3(_)
And3(vs) ==
    IF vs = <<>> THEN "TRUE"
    ELSE LET r == And3(Tail(vs))
         IN  IF Head(vs) = "FALSE" \/ r = "FALSE" THEN "FALSE"
             ELSE IF Head(vs) = "UNKNOWN" \/ r = "UNKNOWN" THEN "UNKNOWN"
             ELSE "TRUE"

RECURSIVE Or3(_)
Or3(vs) ==
    IF vs = <<>> THEN "FALSE"
    ELSE LET r == Or3(Tail(vs))
         IN  IF Head(vs) = "TRUE" \/ r = "TRUE" THEN "TRUE"
             ELSE IF Head(vs) = "UNKNOWN" \/ r = "UNKNOWN" THEN "UNKNOWN"
             ELSE "FALSE"

Bool3(b) == IF b THEN "TRUE" ELSE "FALSE"

\* the value of the rendered predicate x on a row whose column holds col; b is
\* the outcome of the comparisons that depend on more than NULL, 0 and ""
\* (ordering, ILIKE, ANY, CARDINALITY)
RECURSIVE Eval(_, _, _)
Eval(x, col, b) ==
    LET eq == IF x.value.kind = "null" THEN Bool3(col.kind = "null")
              ELSE IF x.value.kind = "list"
              THEN IF x.value.items = <<>> THEN "FALSE"
                   ELSE IF col.kind = "null" THEN "UNKNOWN" ELSE Bool3(b)
              ELSE IF col.kind = "null" THEN "UNKNOWN"
              ELSE IF col.kind = x.value.kind THEN Bool3(col.text = x.value.text)
              ELSE Bool3(b)
        cmp == IF col.kind = "null" \/ x.value.kind = "null" THEN "UNKNOWN" ELSE Bool3(b)
    IN  CASE x.kind = "Eq" -> eq
          [] x.kind = "NotEq" -> Not3(eq)
          [] x.kind \in {"Gt", "GtOrEq", "Lt", "LtOrEq", "ILike"} -> cmp
          [] x.kind = "NotILike" -> Not3(cmp)
          [] x.kind = "Expr" ->
               IF col.kind = "null" THEN "UNKNOWN"
               ELSE IF x.template \in {"CARDINALITY(%s)>0", "CARDINALITY(%s)=0"} THEN Bool3(b)
               ELSE IF x.template = "? = ANY (%s)" THEN cmp
               ELSE Not3(cmp)
          [] x.kind = "And" -> And3([i \in DOMAIN x.parts |-> Eval(x.parts[i], col, b)])
          [] OTHER -> Or3([i \in DOMAIN x.parts |-> Eval(x.parts[i], col, b)])

\* the values a column of the data type can hold, NULL among them
ColumnValues(dt) ==
    {NilValue}
    \cup (CASE dt \in {"bigint", "double precision", "integer", "real"} ->
                 {ZeroValue, NumberValue("1")}
            [] dt = "text" -> {EmptyString, StringValue("x")}
            [] dt = "text[]" -> {ListValue(<<>>), ListValue(<<StringValue("x")>>)}
            [] OTHER -> {[kind |-> "other", text |-> "v"]})

PositiveGuarded ==
    {"greater", "greaterOrEquals", "less", "lessOrEquals", "before", "after", "contains",
     "startsWith", "endsWith", "isSpecified", "containsElement", "hasAnyElement"}

NegativeGuarded == {"notContains", "isNotSpecified", "notContainsElement", "hasNoElements"}

\* a compiler was found and applied, and its expression renders
Rendered == compiled.done /\ compiled.registered /\ compiled.err = None
            /\ compiled.sql.err = None

\* C24: on a NULL column and for any argument, every positive null-guarded
\* predicate of the default registry is FALSE and every negative one is TRUE,
\* never UNKNOWN; isSpecified and isNotSpecified treat the number 0 and the
\* empty text like NULL, and on every column value exactly one of them is TRUE.
C24_NullSafe ==
    Rendered =>
        \A b \in BOOLEAN :
            /\ compiled.operator \in PositiveGuarded =>
                  Eval(compiled.expr, NilValue, b) = "FALSE"
            /\ compiled.operator \in NegativeGuarded =>
                  Eval(compiled.expr, NilValue, b) = "TRUE"
            /\ compiled.operator \in {"isSpecified", "isNotSpecified"} =>
                  LET other == IF compiled.operator = "isSpecified" THEN "isNotSpecified"
                               ELSE "isSpecified"
                      otherExpr == ApplyCompiler(compiled.dt, other, compiled.column,
                                                 compiled.value).expr
                  IN  \A col \in ColumnValues(compiled.dt) :
                        /\ {Eval(compiled.expr, col, b), Eval(otherExpr, col, b)}
                              = {"TRUE", "FALSE"}
                        /\ col \in {NilValue, ZeroValue, EmptyString} =>
                              Eval(compiled.expr, col, b)
                                 = Bool3(compiled.operator = "isNotSpecified")

\* greater was applied to a non-nil number and rendered with its guard
C24_Witness ==
    /\ Rendered
    /\ compiled.operator = "greater"
    /\ compiled.dt = "integer"
    /\ compiled.value = NumberValue("1")
    /\ compiled.expr.kind = "And"
    /\ Eval(compiled.expr, NilValue, TRUE) = "FALSE"

\* the registrations of the default registry as the claim lists them
C25_Listed(dt, op) ==
    \/ /\ op \in {"equals", "notEquals"}
       /\ dt \in {"bigint", "integer", "real", "double precision", "text", "text[]", "uuid"}
    \/ /\ op \in {"greater", "greaterOrEquals", "less", "lessOrEquals"}
       /\ dt \in {"bigint", "integer", "real", "double precision"}
    \/ /\ op \in {"containsElement", "notContainsElement", "hasAnyElement", "hasNoElements"}
       /\ dt = "text[]"

\* C25: the default registry registers equals and notEquals under bigint,
\* integer, real, double precision, text, text[] and uuid, the four orderings
\* under the four number types and the four array operators under text[]: a
\* lookup of any of these finds a compiler.
C25_DefaultRegistry ==
    compiled.done /\ C25_Listed(compiled.dt, compiled.operator) => compiled.registered

\* number of placeholders in a rendered fragment
Placeholders(sql) == Cardinality({i \in DOMAIN sql : sql[i] = Placeholder})

\* C30: for every predicate compiler of the default registry and every value
\* it accepts, the number of bind values it returns equals the number of
\* placeholders in the SQL fragment it emits, hasAnyElement, hasNoElements,
\* isSpecified and isNotSpecified included.
C30_BindValues ==
    Rendered => Len(compiled.sql.args) = Placeholders(compiled.sql.sql)

----------------------------------------------------------------------------
(* Selectors over a catalog                                                *)

\* longest selector that is tried on a catalog
MaxSelectorLen == 2

\* the column names of a catalog, and one that no table has
Names(ts) == UNION {DOMAIN ts[t].columns : t \in DOMAIN ts} \cup {"missing"}

RECURSIVE NameSeqs(_, _)
NameSeqs(names, n) ==
    IF n = 0 THEN {<<>>}
    ELSE LET shorter == NameSeqs(names, n - 1)
         IN  shorter \cup {Append(p, c) : p \in {q \in shorter : Len(q) = n - 1}, c \in names}

\* the selectors tried on a catalog: the empty string, every chain of at most
\* MaxSelectorLen names, and every key of the flattening extended by one name
SelectorsOver(ts, base) ==
    LET names == Names(ts)
        keys  == {e[1] : e \in FlattenColumns(ts, base).entries}
    IN  {NewColumnSelector(p) : p \in NameSeqs(names, MaxSelectorLen)}
        \cup keys
        \cup {k \o <<Dot, c>> : k \in keys, c \in names}

\* the tables along the chain c1.c2...cn from base: t1 = base, t(i+1) the
\* relation target of ti.ci (None where there is none)
RECURSIVE TablesAlong(_, _, _, _)
TablesAlong(ts, cols, i, acc) ==
    IF i >= Len(cols) THEN acc
    ELSE LET t == acc[i]
             next == IF /\ t \in DOMAIN ts
                        /\ cols[i] \in DOMAIN ts[t].columns
                        /\ ts[t].columns[cols[i]].relation # NoRelation
                     THEN ts[t].columns[cols[i]].relation.table
                     ELSE None
         IN  TablesAlong(ts, cols, i + 1, Append(acc, next))

\* c1 is a column of base and each ci, i < n, owns a relation whose target is
\* in the catalog and has column c(i+1)
ChainResolves(ts, base, cols) ==
    LET tables == TablesAlong(ts, cols, 1, <<base>>)
    IN  \A i \in DOMAIN cols :
          /\ tables[i] \in DOMAIN ts
          /\ cols[i] \in DOMAIN ts[tables[i]].columns
          /\ i < Len(cols) => ts[tables[i]].columns[cols[i]].relation # NoRelation

\* C27: for a valid acyclic catalog and a base table, the key set of
\* FlattenColumns(baseTable) is the set of selectors that ConvertColumnSelector
\* converts, and the value under a selector is the metadata of the last column
\* on its relation chain.
C27_FlattenMatchesConvert ==
    status = "done" =>
        LET ts == result.tablesMetadata
        IN  \A base \in DOMAIN ts \cup {"tableE"} :
              LET fl   == FlattenColumns(ts, base)
                  flat == IF base = baseTable THEN result.columnsMetadata
                          ELSE EntriesToMap(fl.entries)
              IN  /\ base \in DOMAIN ts => fl.outcomes = {"ok"}
                  /\ \A s \in SelectorsOver(ts, base) :
                        LET r == ConvertColumnSelector(ts, base, s)
                        IN  /\ s \in DOMAIN flat <=> r.err = None
                            /\ r.err = None =>
                                  LET b == Breakdown(r.full)
                                      n == Len(b.tables)
                                  IN  flat[s] = ts[b.tables[n]].columns[b.columns[n]]

\* a catalog was flattened into keys of one, two and three columns
C27_Witness ==
    /\ status = "done"
    /\ baseTable = "tableA"
    /\ Sel(<<"id">>) \in DOMAIN result.columnsMetadata
    /\ Sel(<<"other_b", "other_c">>) \in DOMAIN result.columnsMetadata
    /\ Sel(<<"other_b", "other_c", "description">>) \in DOMAIN result.columnsMetadata
    /\ result.columnsMetadata[Sel(<<"other_b", "other_c", "description">>)].name
          = "description"
    /\ Sel(<<"other_b", "description">>) \notin DOMAIN result.columnsMetadata

\* the catalogs a selector is converted over: the tables discovered so far
\* (relations may lead to tables that are not in it yet) and the one returned
C28_Catalog == IF status = "done" THEN result.tablesMetadata ELSE known

\* C28: ConvertColumnSelector(base, c1.c2...cn) succeeds iff c1 is a column of
\* base and each ci, i < n, owns a relation whose target table is in the
\* catalog and has column c(i+1); the result is the full selector of exactly n
\* table/column pairs with t1 = base, t(i+1) the relation target of ti.ci and
\* the columns unchanged, and rebuild(breakdown(result)) = result; otherwise it
\* returns an error and no selector.
C28_ConvertColumnSelector ==
    LET ts == C28_Catalog
    IN  \A base \in DOMAIN ts \cup {"tableE"} :
          \A s \in SelectorsOver(ts, base) :
             LET cols == GetColumns(s)
                 r    == ConvertColumnSelector(ts, base, s)
             IN  IF ChainResolves(ts, base, cols)
                 THEN LET tables == TablesAlong(ts, cols, 1, <<base>>)
                          b == Breakdown(r.full)
                      IN  /\ r.err = None
                          /\ b.tables = tables
                          /\ b.columns = cols
                          /\ Len(r.full) = 4 * Len(cols) - 1
                          /\ \A i \in DOMAIN cols :
                                /\ r.full[4 * i - 3] = tables[i]
                                /\ r.full[4 * i - 1] = cols[i]
                          /\ ColumnSelectorRebuild(b.tables, b.columns) = r.full
                 ELSE r.err # None /\ r.full = <<>>

\* while tableB is known and tableC is not yet, other_b.id converts and
\* other_b.other_c.name does not
C28_Witness ==
    /\ status = "discovering"
    /\ DOMAIN known = {"tableA", "tableB"}
    /\ ConvertColumnSelector(known, "tableA", Sel(<<"other_b", "id">>)).full
          = <<"tableA", Dot, "other_b", Dot, "tableB", Dot, "id">>
    /\ ConvertColumnSelector(known, "tableA", Sel(<<"other_b", "other_c">>)).err = None
    /\ ConvertColumnSelector(known, "tableA", Sel(<<"other_b", "other_c", "name">>)).err # None

----------------------------------------------------------------------------
(* Query planning: aliases are defined before they are used                *)

\* the alias in front of a quoted column: what stands between the first two
\* quotes of "alias"."column"
QuotedAlias(text) ==
    LET n == CHOOSE i \in 2..Len(text) :
                text[i] = Quote /\ \A j \in 2..(i - 1) : text[j] # Quote
    IN  SubSeq(text, 2, n - 1)

\* the quoted columns of the leaves of a predicate
RECURSIVE WhereColumns(_)
WhereColumns(pred) ==
    IF pred.kind = "filter" THEN {pred.column}
    ELSE UNION {WhereColumns(pred.parts[i]) : i \in DOMAIN pred.parts}

\* the aliases a statement uses outside its join clauses
UsedAliases(q) ==
    {QuotedAlias(q.columns[i]) : i \in {j \in DOMAIN q.columns : q.columns[j][1] = Quote}}
    \cup {QuotedAlias(c) : c \in UNION {WhereColumns(q.where[i]) : i \in DOMAIN q.where}}
    \cup {QuotedAlias(q.orderBy[i]) : i \in DOMAIN q.orderBy}

\* the base table and the aliases of the first n joins of a statement
DefinedAliases(q, n) ==
    {SubSeq(q.from, 2, Len(q.from) - 1)} \cup {AliasOf(q.joins[k].expr) : k \in 1..n}

C29_AliasesDefinedIn(q) ==
    /\ UsedAliases(q) \subseteq DefinedAliases(q, Len(q.joins))
    /\ \A k \in DOMAIN q.joins :
          QuotedAlias(OnOf(q.joins[k].expr)) \in DefinedAliases(q, k - 1)

\* C29: in the page and the total query, for every iteration order of the
\* used selectors, each alias used by a SELECT column, a WHERE predicate, an
\* ORDER BY item or the source side of a join's ON condition is the base table
\* or the alias of a join that stands earlier in the join sequence of the same
\* query; a filter on a related column that is not selected gets its joins in
\* both queries.
C29_AliasDefinedBeforeUse ==
    Planned =>
        /\ C29_AliasesDefinedIn(plan.out.qPage)
        /\ C29_AliasesDefinedIn(plan.out.qTotal)

\* a filter on tableC's description, reached over other_b and other_c, with
\* only the base table's id selected: both queries join tableB and then tableC
C29_Witness ==
    /\ Planned
    /\ plan.query.select = <<Sel(<<"id">>)>>
    /\ plan.query.where # <<>>
    /\ WhereColumns(plan.out.qTotal.where[1])
          = {StringQuoted(<<"tableA", Dot, "other_b", Dot, "tableB", Dot, "other_c", Dot,
                            "tableC", Dot, "description">>)}
    /\ Len(plan.out.qTotal.joins) = 2
    /\ AliasOf(plan.out.qTotal.joins[1].expr) = <<"tableA", Dot, "other_b", Dot, "tableB">>
    /\ QuotedAlias(OnOf(plan.out.qTotal.joins[2].expr))
          = AliasOf(plan.out.qTotal.joins[1].expr)
    /\ plan.out.qTotal.joins = plan.out.qPage.joins

----------------------------------------------------------------------------
(* API.Query statement by statement                                        *)

\* C21: a call of Query that returns an error, also one that fails on
\* rows.Values or on the row stream after rows were decoded, returns the zero
\* QueryResult; a call that returns no error returns one entry per row the
\* driver delivered, in the order of delivery, the scanned total and the
\* limit of the query
C21_ZeroResultOnError ==
    \A p \in CallIds :
        calls[p].pc = "returned" =>
            LET c == calls[p]
            IN  /\ c.ret.err # None =>
                      /\ c.ret.result.data = <<>>
                      /\ c.ret.result.total = 0
                      /\ c.ret.result = EmptyResult
                /\ c.ret.err = None =>
                      /\ Len(c.ret.result.data) = Len(c.answer)
                      /\ \A r \in DOMAIN c.answer :
                            c.ret.result.data[r] = RowMap(c.query, c.fields, c.answer[r])
                      /\ c.ret.result.total = TotalOf(c.answer)
                      /\ c.ret.result.limit = c.query.limit

\* C21 witness: one call returned "failed to scan row" after it had decoded a
\* row, another returned both rows of its answer
C21_Witness ==
    \E p \in CallIds, r \in CallIds :
        /\ calls[p].pc = "returned"
        /\ calls[p].ret.err = "failed to scan row"
        /\ Len(calls[p].data) = 1
        /\ calls[p].ret.result = EmptyResult
        /\ calls[r].pc = "returned"
        /\ calls[r].ret.err = None
        /\ Len(calls[r].ret.result.data) = 2

\* the place of an event in the order of one call
EventRank(e) ==
    CASE e[1] = "begin" -> 1
      [] e[1] = "send" -> 2
      [] e[1] = "total" -> 3
      [] e[1] = "rows" -> 4
      [] e[1] = "row" -> 5
      [] e = <<"release", "rows">> -> 6
      [] e = <<"release", "batch">> -> 7
      [] OTHER -> 8

\* the statement counts the rows: it selects count(*) and has no LIMIT
IsTotalStatement(st) ==
    /\ Len(st.sql) >= 2
    /\ st.sql[2] = "count(*)"
    /\ \A i \in DOMAIN st.sql : st.sql[i] # " LIMIT "

\* the statement selects the page: it has a LIMIT and does not count
IsPageStatement(st) ==
    /\ \E i \in DOMAIN st.sql : st.sql[i] = " LIMIT "
    /\ \A i \in DOMAIN st.sql : st.sql[i] # "count(*)"

\* the releases a call owes when it returns with these events behind it
ReleasesDue(ev) ==
    (IF \E i \in DOMAIN ev : ev[i] = <<"rows", "opened">>
     THEN <<<<"release", "rows">>>> ELSE <<>>)
    \o <<<<"release", "batch">>, <<"release", "tx">>>>

\* C26: the events of one call of Query occur in the order begin of a
\* read-only transaction, one batch sent with the total statement first and the
\* page statement second, the total read, the page rows read once; and a call
\* that returns after its transaction has begun has released, as its last
\* events and in this order, the row iterator if it was opened, the batch
\* results and the transaction, and holds nothing open
C26_EventAndReleaseOrder ==
    \A p \in CallIds :
        calls[p].pc # "idle" =>
            LET c == calls[p]
                ev == c.events
                n == Len(ev)
                work == {i \in DOMAIN ev : ev[i][1] # "release"}
            IN  /\ \A i \in DOMAIN ev, j \in DOMAIN ev :
                      i < j => \/ EventRank(ev[i]) < EventRank(ev[j])
                               \/ ev[i][1] = "row" /\ ev[j][1] = "row" /\ ev[i][2] < ev[j][2]
                /\ \A j \in work :
                      /\ EventRank(ev[j]) = 1 => j = 1 /\ ev[j] = <<"begin", "read only">>
                      /\ EventRank(ev[j]) \in 2..4 => j > 1 /\ EventRank(ev[j - 1]) = EventRank(ev[j]) - 1
                      /\ EventRank(ev[j]) = 5 => j > 1 /\ EventRank(ev[j - 1]) \in {4, 5}
                      /\ EventRank(ev[j]) = 2 =>
                            /\ Len(ev[j][2]) = 2
                            /\ IsTotalStatement(ev[j][2][1])
                            /\ IsPageStatement(ev[j][2][2])
                      /\ EventRank(ev[j]) = 4 => ev[j - 1] = <<"total", "read">>
                      /\ EventRank(ev[j]) = 5 => \E i \in 1..(j - 1) : ev[i] = <<"rows", "opened">>
                /\ c.pc # "returned" => work = DOMAIN ev
                /\ (c.pc = "returned" /\ ev # <<>>) =>
                      LET due == ReleasesDue(ev)
                      IN  /\ c.open = {}
                          /\ n >= Len(due) + 2
                          /\ SubSeq(ev, n - Len(due) + 1, n) = due
                          /\ work = 1..(n - Len(due))
                /\ (c.pc = "returned" /\ ev = <<>>) => c.open = {}

\* C26 witness: a call that failed on rows.Values after one decoded row has
\* begun, sent, read the total, opened the rows, read a row, and released the
\* rows, the batch results and the transaction
C26_Witness ==
    \E p \in CallIds :
        /\ calls[p].pc = "returned"
        /\ calls[p].ret.err = "failed to scan row"
        /\ Len(calls[p].events) = 8
        /\ [i \in 1..8 |-> EventRank(calls[p].events[i])] = <<1, 2, 3, 4, 5, 6, 7, 8>>
        /\ SubSeq(calls[p].events, 6, 8)
              = <<<<"release", "rows">>, <<"release", "batch">>, <<"release", "tx">>>>

====
